---- MODULE Spec2Model ----
(***************************************************************************)
(* Alerting / notification platform: the alert entity, the per-user alert  *)
(* state entity, the two stores, the delivery strategy rate limiter and    *)
(* the NotificationScheduler reminder loop.  The clock counts minutes in   *)
(* the scheduler specifications and the resolution of Date (one            *)
(* millisecond) in the entity and rate limiter specifications, where a     *)
(* local day is DayLength units long.                                      *)
(***************************************************************************)
EXTENDS Integers, Sequences, FiniteSets, TLC

(* ------------------------------ bounds -------------------------------- *)
MaxTime == 2
MaxTicks == 2
MaxFaults == 1
MaxAdminOps == 2
MaxArchiveOps == 1
MaxUserOps == 1
MaxDeliveries == 2
DayLength == 3
MaxRateCalls == 4
MaxConcurrent == 2
timeout == 1
MaxAttempt == 8
RandomSteps == 5
MaxEntities == 3
MaxProducts == 3
MaxTransactions == 2
MaxOpCalls == 2
windowMs == 2
maxRequests == 2

(* ------------------------- program constants -------------------------- *)
TickIntervalMinutes == 1
MinutesPerHour == 60
DefaultReminderFrequency == 2

Undefined == -1

Alerts == {"a1", "a2"}
Users == {"u1", "u2"}
Times == 0..MaxTime

AlertStatus == {"active", "expired", "archived"}

(* ---------------------- UserAlertStateEntity -------------------------- *)
\* A stored/ in-memory state; exists = FALSE stands for null (no row).
NoState ==
  [exists |-> FALSE, isRead |-> FALSE, isSnoozed |-> FALSE, snoozeUntil |-> Undefined,
   lastDelivered |-> Undefined, deliveryCount |-> 0, updatedAt |-> Undefined]

NewUserAlertState(t) ==
  [exists |-> TRUE, isRead |-> FALSE, isSnoozed |-> FALSE, snoozeUntil |-> Undefined,
   lastDelivered |-> Undefined, deliveryCount |-> 0, updatedAt |-> t]

\* The comparison written with < : a time equal to now is accepted.
snoozeUntilTimeThrows_strict(until, t) == until < t

snoozeUntilTimeThrows(until, t) == until <= t

snoozeUntilTime(s, until, t) ==
  IF snoozeUntilTimeThrows(until, t) THEN s
  ELSE [s EXCEPT !.isSnoozed = TRUE, !.snoozeUntil = until, !.updatedAt = t]

unsnooze(s, t) ==
  [s EXCEPT !.isSnoozed = FALSE, !.snoozeUntil = Undefined, !.updatedAt = t]

\* The count is set instead of incremented.
recordDelivery_setsOne(s, t) ==
  [s EXCEPT !.lastDelivered = t, !.deliveryCount = 1, !.updatedAt = t]

recordDelivery(s, t) ==
  [s EXCEPT !.lastDelivered = t, !.deliveryCount = @ + 1, !.updatedAt = t]

\* The expiry comparison written with <= : snoozed at the expiry instant.
isCurrentlySnoozed_inclusive(s, t) ==
  IF ~s.isSnoozed THEN FALSE
  ELSE IF s.snoozeUntil = Undefined THEN TRUE
  ELSE t <= s.snoozeUntil

isCurrentlySnoozed(s, t) ==
  IF ~s.isSnoozed THEN FALSE
  ELSE IF s.snoozeUntil = Undefined THEN TRUE
  ELSE t < s.snoozeUntil

\* Only the flag is consulted, not the expiry of the snooze.
shouldReceiveReminder_flagOnly(s, t) == ~s.isSnoozed

shouldReceiveReminder(s, t) == ~isCurrentlySnoozed(s, t)

resetSnoozeIfExpiredResult(s, t) ==
  s.isSnoozed /\ s.snoozeUntil # Undefined /\ t >= s.snoozeUntil

\* The expiry test is left out: any snooze is cleared.
resetSnoozeIfExpired_anySnooze(s, t) ==
  IF s.isSnoozed THEN unsnooze(s, t) ELSE s

resetSnoozeIfExpired(s, t) ==
  IF resetSnoozeIfExpiredResult(s, t) THEN unsnooze(s, t) ELSE s

\* Reading an alert also ends its snooze.
markAsRead_endsSnooze(s, t) ==
  [s EXCEPT !.isRead = TRUE, !.isSnoozed = FALSE, !.snoozeUntil = Undefined, !.updatedAt = t]

markAsRead(s, t) == [s EXCEPT !.isRead = TRUE, !.updatedAt = t]

markAsUnread(s, t) == [s EXCEPT !.isRead = FALSE, !.updatedAt = t]

\* endOfDay.setHours(23, 59, 59, 999): the last clock unit of the local day of t.
endOfDay(t) == (t \div DayLength) * DayLength + (DayLength - 1)

snoozeForDay(s, t) ==
  [s EXCEPT !.isSnoozed = TRUE, !.snoozeUntil = endOfDay(t), !.updatedAt = t]

\* UserAlertStateEntity.validateUpdateRequest(request): TRUE iff it throws.
stateValidateUpdateRequestThrows(request, t) ==
  \/ "deliveryCount" \in request.has /\ request.deliveryCount < 0
  \/ "snoozeUntil" \in request.has /\ request.snoozeUntil <= t

\* UserAlertStateEntity.update(request): the entity after the call.
stateUpdate(s, request, t) ==
  IF stateValidateUpdateRequestThrows(request, t) THEN s
  ELSE [s EXCEPT
     !.isRead = IF "isRead" \in request.has THEN request.isRead ELSE @,
     !.isSnoozed = IF "isSnoozed" \in request.has THEN request.isSnoozed ELSE @,
     !.snoozeUntil = IF "snoozeUntil" \in request.has THEN request.snoozeUntil ELSE @,
     !.lastDelivered = IF "lastDelivered" \in request.has THEN request.lastDelivered ELSE @,
     !.deliveryCount = IF "deliveryCount" \in request.has THEN request.deliveryCount ELSE @,
     !.updatedAt = t]

\* The isSnoozed flag is not consulted.
getSnoozeTimeRemaining_ignoresFlag(s, t) ==
  IF s.snoozeUntil = Undefined THEN 0
  ELSE IF s.snoozeUntil - t > 0 THEN s.snoozeUntil - t ELSE 0

getSnoozeTimeRemaining(s, t) ==
  IF ~isCurrentlySnoozed(s, t) \/ s.snoozeUntil = Undefined THEN 0
  ELSE IF s.snoozeUntil - t > 0 THEN s.snoozeUntil - t ELSE 0

hasBeenDelivered(s) == s.deliveryCount > 0

\* getTimeSinceLastDelivery(): null is Undefined.
getTimeSinceLastDelivery(s, t) ==
  IF s.lastDelivered = Undefined THEN Undefined ELSE t - s.lastDelivered

\* A read that reconciles an expired snooze as a side effect.
afterQuery_selfHealing(s, op, t) == resetSnoozeIfExpired(s, t)

\* The entity after one of the query methods isCurrentlySnoozed,
\* shouldReceiveReminder, getSnoozeTimeRemaining, hasBeenDelivered,
\* getTimeSinceLastDelivery, getStateInfo: none of them assigns a field.
afterQuery(s, op, t) == s

(* ---------------------------- AlertEntity ----------------------------- *)
Trim(str) ==
  CASE str = " t2 " -> "t2"
    [] str = "  " -> ""
    [] OTHER -> str

\* A time in a request is a Date (a count of clock units) or, when the request
\* is the parsed JSON body that the alerts route hands to createAlert, the
\* ISO-8601 string of a time; the string of time n is IsoString(n).
IsoOffset == 1000
IsoString(n) == IsoOffset + n
IsString(x) == x >= IsoOffset
TimeOf(x) == IF IsString(x) THEN x - IsoOffset ELSE x

\* x <= y and x >= y of JavaScript: two Dates compare by time, two ISO strings
\* of one format compare as text (in time order), and a string against a Date
\* is converted to a number, which gives NaN, so the comparison is false.
JsLessEq(x, y) == IsString(x) = IsString(y) /\ x <= y
JsGreaterEq(x, y) == IsString(x) = IsString(y) /\ x >= y

\* validateTimeConstraints(start, expiry): TRUE iff it throws.
validateTimeConstraintsThrows(start, expiry, t) ==
  \/ JsLessEq(expiry, t)
  \/ JsGreaterEq(start, expiry)

\* A request is the set of provided keys plus their values.
Provided(request, key) == key \in request.has

\* validateUpdateRequest(request): TRUE iff it throws.
validateUpdateRequestThrows(request) ==
  \/ Provided(request, "title") /\ Len(Trim(request.title)) = 0
  \/ Provided(request, "reminderFrequency") /\ request.reminderFrequency <= 0
  \/ Provided(request, "status") /\ request.status \notin AlertStatus

\* The assignments of update(request), lines 52-81.
ApplyPatch(e, request) ==
  [e EXCEPT
     !.title = IF Provided(request, "title") THEN Trim(request.title) ELSE @,
     !.startTime = IF Provided(request, "startTime") THEN request.startTime ELSE @,
     !.expiryTime = IF Provided(request, "expiryTime") THEN request.expiryTime ELSE @,
     !.reminderEnabled = IF Provided(request, "reminderEnabled") THEN request.reminderEnabled ELSE @,
     !.reminderFrequency = IF Provided(request, "reminderFrequency") THEN request.reminderFrequency ELSE @,
     !.status = IF Provided(request, "status") THEN request.status ELSE @]

\* update(request): TRUE iff the call throws.
updateThrows(e, request, t) ==
  \/ validateUpdateRequestThrows(request)
  \/ validateTimeConstraintsThrows(ApplyPatch(e, request).startTime,
                                   ApplyPatch(e, request).expiryTime, t)

\* update(request): the entity after the call, whether it returned or threw.
update(e, request, t) ==
  IF validateUpdateRequestThrows(request) THEN e
  ELSE ApplyPatch(e, request)

archive(e) == [e EXCEPT !.status = "archived"]

markExpired(e) == [e EXCEPT !.status = "expired"]

\* new AlertEntity(request, createdBy): TRUE iff the constructor throws.
constructorThrows(title, start, expiry, freq, t) ==
  \/ Len(Trim(title)) = 0
  \/ validateTimeConstraintsThrows(start, expiry, t)
  \/ freq # Undefined /\ freq <= 0

NewAlert(title, start, expiry, enabled, freq) ==
  [title |-> Trim(title), startTime |-> start, expiryTime |-> expiry,
   reminderEnabled |-> enabled,
   reminderFrequency |-> IF freq = Undefined THEN DefaultReminderFrequency ELSE freq,
   status |-> "active"]

(* ------------------------------- state -------------------------------- *)
VARIABLES
  now,          \* the wall clock, in minutes
  alertRows,    \* alerts table: alert id -> row
  userStates,   \* user_alert_states table: <<user id, alert id>> -> row or NoState
  interval,     \* NotificationScheduler.interval: "null" or "set"
  nextFire,     \* time of the next setInterval fire
  ticks,        \* the tick callbacks started so far, each with its position
  faults,       \* number of rejected store / service calls so far
  sentCount,    \* history: sendNotification invocations per <<alert, user>>
  lastSent,     \* history: time of the last invocation per <<alert, user>>
  adminOps,     \* AlertService calls in flight or finished
  userOps,      \* per-user state calls in flight or finished
  ent,          \* a free-standing AlertEntity (entity-level operations)
  entBefore,    \* history: ent before the last update(request) call
  threw,        \* history: whether the last update(request) call threw
  made,         \* history: the last new AlertEntity(request) call and its outcome
  uas,          \* a free-standing UserAlertStateEntity (entity-level operations)
  ret,          \* history: the last call on uas and what it returned
  calls,        \* history: the recordDelivery calls made on uas
  rateLimitTracker, \* BaseDeliveryStrategy.rateLimitTracker: user id -> timestamps
  delivered,    \* history: the times of the deliver() invocations per user id
  dcall,        \* the deliverWithMetrics calls: slot -> call in progress / last result
  retry,        \* history: the last calculateNextRetryTime call
  visAlerts,    \* alerts table with visibility columns: alert id -> row or NoAlertRow
  found,        \* history: the last alerts-visible-to-user query and its result
  svc,          \* history: UserService / store calls made per <<user id, alert id>>
  tbl,          \* user_alert_states as a set of rows, each with its id
  factory,      \* DeliveryStrategyFactory: strategies, instances and, as history, its calls
  channel,      \* the concrete strategies: deliver() history and the last canDeliver call
  tx            \* executeInTransaction: the DatabaseTransaction in use and, as history, its queries and releases

schedVars == <<interval, nextFire, ticks, faults, sentCount, lastSent>>
storeVars == <<alertRows, userStates>>
opVars == <<adminOps, userOps>>
entVars == <<ent, entBefore, threw>>
ctorVars == <<made>>
uasVars == <<uas, ret, calls>>
rateVars == <<rateLimitTracker, delivered, dcall>>
retryVars == <<retry>>
queryVars == <<visAlerts, found>>
svcVars == <<svc>>
tableVars == <<tbl>>
factoryVars == <<factory>>
channelVars == <<channel>>
txVars == <<tx>>
unitVars == <<ctorVars, uasVars, rateVars, retryVars, queryVars, svcVars, tableVars, factoryVars, channelVars, txVars>>
vars == <<now, alertRows, userStates, interval, nextFire, ticks, faults, sentCount,
          lastSent, adminOps, userOps, ent, entBefore, threw, made, uas, ret, calls,
          rateLimitTracker, delivered, dcall, retry, visAlerts, found, svc, tbl, factory, channel, tx>>

Pairs == Alerts \X Users

MkPatch(has, title, start, expiry, enabled, freq, status) ==
  [has |-> has, title |-> title, startTime |-> start, expiryTime |-> expiry,
   reminderEnabled |-> enabled, reminderFrequency |-> freq, status |-> status]

NoPatch == MkPatch({}, "t1", 0, 0, TRUE, 1, "active")

(* ----------------- entity-level operations on AlertEntity -------------- *)
\* Requests tried against the free-standing entity.
EntityPatches ==
  { MkPatch({"title"}, title, 0, 0, TRUE, 1, "active") : title \in {"t2", "  "} }
  \cup { MkPatch({"startTime"}, "t1", start, 0, TRUE, 1, "active") : start \in {0, 2} }
  \cup { MkPatch({"expiryTime"}, "t1", 0, expiry, TRUE, 1, "active") :
            expiry \in {1, MaxTime + 1} }
  \cup { MkPatch({"startTime", "expiryTime"}, "t1", start, expiry, TRUE, 1, "active") :
            start \in {0, 2}, expiry \in {1, MaxTime + 1} }
  \cup { MkPatch({"reminderFrequency"}, "t1", 0, 0, TRUE, freq, "active") : freq \in {0, 1} }
  \cup { MkPatch({"status"}, "t1", 0, 0, TRUE, 1, status) : status \in {"active", "expired"} }
  \cup { MkPatch({"title", "expiryTime"}, title, 0, expiry, TRUE, 1, "active") :
            title \in {"t2", "  "}, expiry \in {1, MaxTime + 1} }

EntityInit ==
  /\ \E title \in {"t1", " t2 "}, start \in Times, expiry \in 1..(MaxTime + 1),
        freq \in {Undefined, 1} :
       /\ ~constructorThrows(title, start, expiry, freq, 0)
       /\ ent = NewAlert(title, start, expiry, TRUE, freq)
  /\ entBefore = ent
  /\ threw = FALSE

EntUpdate(request) ==
  /\ entBefore' = ent
  /\ threw' = updateThrows(ent, request, now)
  /\ ent' = update(ent, request, now)
  /\ UNCHANGED <<now, storeVars, schedVars, opVars, unitVars>>

EntArchive ==
  /\ ent' = archive(ent)
  /\ entBefore' = ent
  /\ threw' = FALSE
  /\ UNCHANGED <<now, storeVars, schedVars, opVars, unitVars>>

EntMarkExpired ==
  /\ ent' = markExpired(ent)
  /\ entBefore' = ent
  /\ threw' = FALSE
  /\ UNCHANGED <<now, storeVars, schedVars, opVars, unitVars>>

EntClock ==
  /\ now < MaxTime
  /\ now' = now + 1
  /\ UNCHANGED <<storeVars, schedVars, opVars, entVars, unitVars>>

(* ------------------- new AlertEntity(request, createdBy) --------------- *)
\* Times given to the constructor: Dates, and the strings of a JSON body.
CreateTimes == (0..(MaxTime + 1)) \cup {IsoString(n) : n \in 0..(MaxTime + 1)}

NoMade == [called |-> FALSE, threw |-> FALSE, startTime |-> 0, expiryTime |-> 0, at |-> 0]

\* AlertService.createAlert(request): new AlertEntity(request, createdBy).
Construct(title, start, expiry, freq) ==
  /\ made' = [called |-> TRUE, threw |-> constructorThrows(title, start, expiry, freq, now),
              startTime |-> start, expiryTime |-> expiry, at |-> now]
  /\ UNCHANGED <<now, storeVars, schedVars, opVars, entVars, uasVars, rateVars, retryVars,
                 queryVars, svcVars, tableVars, factoryVars, channelVars, txVars>>

(* ------------- entity-level operations on UserAlertStateEntity --------- *)
NoRet ==
  [op |-> "none", bool |-> FALSE, num |-> 0, arg |-> Undefined, at |-> 0,
   before |-> NewUserAlertState(0), again |-> FALSE]

\* The record of a call made at the current time on the current entity.
Ret(op, bool, num, arg) ==
  [op |-> op, bool |-> bool, num |-> num, arg |-> arg, at |-> now, before |-> uas,
   again |-> FALSE]

NoCalls == [n |-> 0, at |-> Undefined, patched |-> FALSE]

MkStatePatch(has, isRead, isSnoozed, snoozeUntil, lastDelivered, deliveryCount) ==
  [has |-> has, isRead |-> isRead, isSnoozed |-> isSnoozed, snoozeUntil |-> snoozeUntil,
   lastDelivered |-> lastDelivered, deliveryCount |-> deliveryCount]

\* Requests tried with update(request) on the free-standing entity.
StatePatches ==
  { MkStatePatch({"isRead"}, TRUE, FALSE, 0, 0, 0),
    MkStatePatch({"isSnoozed"}, FALSE, TRUE, 0, 0, 0),
    MkStatePatch({"snoozeUntil"}, FALSE, FALSE, 1, 0, 0),
    MkStatePatch({"isSnoozed", "snoozeUntil"}, FALSE, TRUE, 2, 0, 0),
    MkStatePatch({"deliveryCount"}, FALSE, FALSE, 0, 0, 0),
    MkStatePatch({"deliveryCount"}, FALSE, FALSE, 0, 0, -1) }

QueryOps ==
  {"isCurrentlySnoozed", "shouldReceiveReminder", "getSnoozeTimeRemaining",
   "hasBeenDelivered", "getTimeSinceLastDelivery", "getStateInfo"}

StStep(newSt, newRet, newCalls) ==
  /\ uas' = newSt
  /\ ret' = newRet
  /\ calls' = newCalls
  /\ UNCHANGED <<now, storeVars, schedVars, opVars, entVars, ctorVars, rateVars, retryVars,
                 queryVars, svcVars, tableVars, factoryVars, channelVars, txVars>>

StUpdate(request) ==
  LET throws == stateValidateUpdateRequestThrows(request, now)
  IN StStep(stateUpdate(uas, request, now), Ret("update", throws, 0, Undefined),
            IF ~throws /\ request.has \cap {"deliveryCount", "lastDelivered"} # {}
            THEN [calls EXCEPT !.patched = TRUE] ELSE calls)

StMarkAsRead == StStep(markAsRead(uas, now), Ret("markAsRead", FALSE, 0, Undefined), calls)

StMarkAsUnread == StStep(markAsUnread(uas, now), Ret("markAsUnread", FALSE, 0, Undefined), calls)

StSnoozeForDay == StStep(snoozeForDay(uas, now), Ret("snoozeForDay", FALSE, 0, Undefined), calls)

StSnoozeUntilTime(until) ==
  StStep(snoozeUntilTime(uas, until, now),
         Ret("snoozeUntilTime", snoozeUntilTimeThrows(until, now), 0, until), calls)

StUnsnooze == StStep(unsnooze(uas, now), Ret("unsnooze", FALSE, 0, Undefined), calls)

StRecordDelivery ==
  /\ calls.n < MaxDeliveries
  /\ StStep(recordDelivery(uas, now), Ret("recordDelivery", FALSE, 0, Undefined),
            [calls EXCEPT !.n = @ + 1, !.at = now])

StResetSnoozeIfExpired ==
  StStep(resetSnoozeIfExpired(uas, now),
         [Ret("resetSnoozeIfExpired", resetSnoozeIfExpiredResult(uas, now), 0, Undefined)
            EXCEPT !.again = (ret.op = "resetSnoozeIfExpired" /\ ret.bool /\ ret.at = now)],
         calls)

\* One of the query methods is called; bool / num hold what it returned
\* (getStateInfo: its isSnoozed and snoozeTimeRemaining members).
StQuery(op) ==
  StStep(afterQuery(uas, op, now),
         Ret(op,
             CASE op = "isCurrentlySnoozed" -> isCurrentlySnoozed(uas, now)
               [] op = "shouldReceiveReminder" -> shouldReceiveReminder(uas, now)
               [] op = "hasBeenDelivered" -> hasBeenDelivered(uas)
               [] op = "getStateInfo" -> isCurrentlySnoozed(uas, now)
               [] OTHER -> FALSE,
             CASE op = "getSnoozeTimeRemaining" -> getSnoozeTimeRemaining(uas, now)
               [] op = "getTimeSinceLastDelivery" -> getTimeSinceLastDelivery(uas, now)
               [] op = "getStateInfo" -> getSnoozeTimeRemaining(uas, now)
               [] OTHER -> 0,
             Undefined),
         calls)

(* ------------------------- BaseDeliveryStrategy ------------------------ *)
\* The comparison written with > : one request more than the limit passes.
checkRateLimit_offByOne(tracker, userId, t) ==
  LET InWindow(timestamp) == t - timestamp < windowMs
      requests == SelectSeq(tracker[userId], InWindow)
  IN ~(Len(requests) > maxRequests)

\* checkRateLimit(userId) at time t.
checkRateLimit(tracker, userId, t) ==
  LET InWindow(timestamp) == t - timestamp < windowMs
      requests == SelectSeq(tracker[userId], InWindow)
  IN ~(Len(requests) >= maxRequests)

\* recordRateLimitUsage(userId) at time t.
recordRateLimitUsage(tracker, userId, t) ==
  [tracker EXCEPT ![userId] = Append(@, t)]

\* A validation that accepts everything.
validateDelivery_always(notificationValid, isActive) == TRUE

\* validateDelivery(notification, user).isValid with the default
\* validateStrategySpecific.
validateDelivery(notificationValid, isActive) == notificationValid /\ isActive

\* canDeliver(user) with the default validateUserForDelivery.
canDeliver(tracker, userId, isActive, t) ==
  IF ~isActive THEN FALSE
  ELSE IF ~checkRateLimit(tracker, userId, t) THEN FALSE
  ELSE TRUE

\* undefined (or empty) errorMessage.
NoErrorMessage == ""

\* `Validation failed: ${validation.errors.join(', ')}`
validationMessage(notificationValid, isActive) ==
  IF ~notificationValid /\ ~isActive
  THEN "Validation failed: Notification title is required, User is not active"
  ELSE IF ~notificationValid THEN "Validation failed: Notification title is required"
  ELSE "Validation failed: User is not active"

ValidationMessages ==
  {validationMessage(nv, act) : nv \in BOOLEAN, act \in BOOLEAN}

nonRetryableErrors ==
  {"validation failed", "user not active", "invalid email", "invalid phone number",
   "user not found"}

\* The entries of nonRetryableErrors that errorMessage.toLowerCase() includes.
IncludedPhrases(errorMessage) ==
  CASE errorMessage \in ValidationMessages -> {"validation failed"}
    [] errorMessage = "Invalid email address" -> {"invalid email"}
    [] errorMessage = "Invalid phone number format" -> {"invalid phone number"}
    [] errorMessage = "User not found" -> {"user not found"}
    [] OTHER -> {}

\* shouldRetryDelivery(errorMessage)
shouldRetryDelivery(errorMessage) ==
  IF errorMessage = NoErrorMessage THEN FALSE
  ELSE ~(\E e \in nonRetryableErrors : e \in IncludedPhrases(errorMessage))

\* What the channel's deliver(notification, user) does when it completes.
DeliverOutcomes ==
  {[kind |-> "success", errorMessage |-> NoErrorMessage]}
  \cup {[kind |-> "failure", errorMessage |-> m] :
           m \in {NoErrorMessage, "Invalid email address", "Connection timed out"}}
  \cup {[kind |-> "throws", errorMessage |-> m] :
           m \in {"User not found", "Unknown error"}}

\* A deliverWithMetrics call: its position, its arguments and, once it has
\* returned, the EnhancedDeliveryResult.
NewCall ==
  [pc |-> "idle", user |-> "u1", notificationValid |-> TRUE, isActive |-> TRUE,
   before |-> 0, startTime |-> 0, result |-> "none", errorMessage |-> NoErrorMessage,
   shouldRetry |-> FALSE, attemptNumber |-> 1]

\* createFailureResult(notification, errorMessage, startTime, attemptNumber)
createFailureResult(call, errorMessage) ==
  [call EXCEPT !.pc = "idle", !.startTime = 0, !.result = "failed",
               !.errorMessage = errorMessage,
               !.shouldRetry = shouldRetryDelivery(errorMessage)]

\* deliverWithMetrics(notification, user) is called: validation and canDeliver.
DeliverBegin(k, userId, notificationValid, isActive) ==
  /\ dcall[k].pc = "idle"
  /\ Len(delivered[userId]) < MaxRateCalls
  /\ LET call == [NewCall EXCEPT !.user = userId, !.notificationValid = notificationValid,
                                 !.isActive = isActive, !.before = Len(delivered[userId]),
                                 !.startTime = now]
     IN dcall' = [dcall EXCEPT ![k] =
          IF ~validateDelivery(notificationValid, isActive)
          THEN createFailureResult(call, validationMessage(notificationValid, isActive))
          ELSE IF ~canDeliver(rateLimitTracker, userId, isActive, now)
          THEN createFailureResult(call, "Delivery not possible for this user")
          ELSE [call EXCEPT !.pc = "canDeliver"]]
  /\ UNCHANGED <<now, storeVars, schedVars, opVars, entVars, ctorVars, uasVars,
                 retryVars, queryVars, svcVars, tableVars, factoryVars, channelVars, txVars, rateLimitTracker, delivered>>

\* await this.canDeliver(user) has resolved: recordRateLimitUsage(user.id) and
\* this.deliver(notification, user) is invoked.
DeliverPerform(k) ==
  /\ dcall[k].pc = "canDeliver"
  /\ rateLimitTracker' = recordRateLimitUsage(rateLimitTracker, dcall[k].user, now)
  /\ delivered' = [delivered EXCEPT ![dcall[k].user] = Append(@, now)]
  /\ dcall' = [dcall EXCEPT ![k].pc = "deliver"]
  /\ UNCHANGED <<now, storeVars, schedVars, opVars, entVars, ctorVars, uasVars, retryVars,
                 queryVars, svcVars, tableVars, factoryVars, channelVars, txVars>>

\* await this.deliver(notification, user) completes: the result is returned,
\* or the exception is caught and turned into a failure result.
DeliverResolve(k, outcome) ==
  /\ dcall[k].pc = "deliver"
  /\ dcall' = [dcall EXCEPT ![k] =
       IF outcome.kind = "throws" THEN createFailureResult(@, outcome.errorMessage)
       ELSE [@ EXCEPT !.pc = "idle", !.startTime = 0,
                      !.result = IF outcome.kind = "success" THEN "delivered" ELSE "failed",
                      !.errorMessage = outcome.errorMessage,
                      !.shouldRetry = (outcome.kind # "success"
                                       /\ shouldRetryDelivery(outcome.errorMessage))]]
  /\ UNCHANGED <<now, storeVars, schedVars, opVars, entVars, ctorVars, uasVars,
                 retryVars, queryVars, svcVars, tableVars, factoryVars, channelVars, txVars, rateLimitTracker, delivered>>

\* defaultRetryConfig; jitterFactor 0.1 is held in percent.
baseDelay == 1000
backoffMultiplier == 2
maxDelay == 30000
jitterFactorPercent == 10

Pow(b, e) ==
  LET P[i \in 0..e] == IF i = 0 THEN 1 ELSE b * P[i - 1]
  IN P[e]

\* The exponent written as attemptNumber instead of attemptNumber - 1.
retryDelay_exponentOff(attemptNumber) ==
  LET d == baseDelay * Pow(backoffMultiplier, attemptNumber)
  IN IF d < maxDelay THEN d ELSE maxDelay

\* Math.min(baseDelay * Math.pow(backoffMultiplier, attemptNumber - 1), maxDelay)
retryDelay(attemptNumber) ==
  LET d == baseDelay * Pow(backoffMultiplier, attemptNumber - 1)
  IN IF d < maxDelay THEN d ELSE maxDelay

\* delay * jitterFactor * Math.random(), with Math.random() = k / RandomSteps
\* for k in 0..RandomSteps-1, in whole milliseconds.
retryJitter(delay, k) == (delay * jitterFactorPercent * k) \div (100 * RandomSteps)

NoRetry == [called |-> FALSE, attemptNumber |-> 1, delay |-> 0, jitter |-> 0, at |-> 0]

\* calculateNextRetryTime(attemptNumber)
CalculateNextRetryTime(attemptNumber, k) ==
  /\ retry' = [called |-> TRUE, attemptNumber |-> attemptNumber,
               delay |-> retryDelay(attemptNumber),
               jitter |-> retryJitter(retryDelay(attemptNumber), k), at |-> now]
  /\ UNCHANGED <<now, storeVars, schedVars, opVars, entVars, ctorVars, uasVars, rateVars,
                 queryVars, svcVars, tableVars, factoryVars, channelVars, txVars>>

(* ----------------- the alerts-visible-to-user queries ------------------ *)
VisibilityTypes == {"organization", "team", "user"}

\* The users with their team and organization ids.
teamId(u) == IF u = "u1" THEN "team1" ELSE "team2"
organizationId(u) == "org1"

\* The targetIds lists tried: none, an organization, a team, a user.
TargetIdSets == {{}, {"org1"}, {"team1"}, {"u2"}}

\* AlertEntity.validateVisibilityConfig(visibility) throws.
validateVisibilityConfigThrows(type, targetIds) ==
  IF type \notin VisibilityTypes THEN TRUE
  ELSE IF type = "organization" THEN FALSE
  ELSE targetIds = {}

NoAlertRow ==
  [exists |-> FALSE, status |-> "active", visibility_type |-> "organization",
   target_ids |-> {}, start_time |-> 0, expiry_time |-> 0]

\* AlertRepository.create of a new AlertEntity: the constructor validates the
\* visibility and the times, the row is inserted with status active.
VisCreateAlert(a, type, targetIds, start, expiry) ==
  /\ ~visAlerts[a].exists
  /\ ~validateVisibilityConfigThrows(type, targetIds)
  /\ ~validateTimeConstraintsThrows(start, expiry, now)
  /\ visAlerts' = [visAlerts EXCEPT ![a] =
        [exists |-> TRUE, status |-> "active", visibility_type |-> type,
         target_ids |-> targetIds, start_time |-> start, expiry_time |-> expiry]]
  /\ UNCHANGED <<now, found, storeVars, schedVars, opVars, entVars, ctorVars, uasVars,
                 rateVars, retryVars, svcVars, tableVars, factoryVars, channelVars, txVars>>

\* AlertRepository.archiveAlert(id).
VisArchiveAlert(a) ==
  /\ visAlerts[a].exists
  /\ visAlerts[a].status # "archived"
  /\ visAlerts' = [visAlerts EXCEPT ![a].status = "archived"]
  /\ UNCHANGED <<now, found, storeVars, schedVars, opVars, entVars, ctorVars, uasVars,
                 rateVars, retryVars, svcVars, tableVars, factoryVars, channelVars, txVars>>

\* (visibility_type = $type AND target_ids::jsonb ? $id)
visibilityClause(row, type, id) == row.visibility_type = type /\ id \in row.target_ids

\* The rows selected, in table order (the ORDER BY is left out).
SelectRows(Keep(_)) ==
  LET order == <<"a1", "a2">>
      F[i \in 0..Len(order)] ==
        IF i = 0 THEN <<>>
        ELSE IF visAlerts[order[i]].exists /\ Keep(order[i])
             THEN Append(F[i - 1], order[i]) ELSE F[i - 1]
  IN F[Len(order)]

\* AlertRepository.findAlertsForUser(userId, teamId, organizationId) with the
\* time window in its WHERE clause.
findAlertsForUser(userId, team, organization, t) ==
  LET Keep(a) ==
        /\ visAlerts[a].status = "active"
        /\ visAlerts[a].start_time <= t
        /\ visAlerts[a].expiry_time > t
        /\ \/ visibilityClause(visAlerts[a], "organization", organization)
           \/ visibilityClause(visAlerts[a], "team", team)
           \/ visibilityClause(visAlerts[a], "user", userId)
  IN SelectRows(Keep)

\* AlertRepository.findByVisibility({organizationId, teamId, userId}), to which
\* the other findAlertsForUser delegates: WHERE status = $1 AND (clauses).
findByVisibility(userId, team, organization) ==
  LET Keep(a) ==
        /\ visAlerts[a].status = "active"
        /\ \/ visibilityClause(visAlerts[a], "organization", organization)
           \/ visibilityClause(visAlerts[a], "team", team)
           \/ visibilityClause(visAlerts[a], "user", userId)
  IN SelectRows(Keep)

NoQuery == [op |-> "none", user |-> "u1", at |-> 0, result |-> <<>>]

\* UserService.getUserAlerts(userId) through findAlertsForUser.
QueryFindAlertsForUser(u) ==
  /\ found' = [op |-> "findAlertsForUser", user |-> u, at |-> now,
               result |-> findAlertsForUser(u, teamId(u), organizationId(u), now)]
  /\ UNCHANGED <<now, visAlerts, storeVars, schedVars, opVars, entVars, ctorVars, uasVars,
                 rateVars, retryVars, svcVars, tableVars, factoryVars, channelVars, txVars>>

\* The same through findByVisibility.
QueryFindByVisibility(u) ==
  /\ found' = [op |-> "findByVisibility", user |-> u, at |-> now,
               result |-> findByVisibility(u, teamId(u), organizationId(u))]
  /\ UNCHANGED <<now, visAlerts, storeVars, schedVars, opVars, entVars, ctorVars, uasVars,
                 rateVars, retryVars, svcVars, tableVars, factoryVars, channelVars, txVars>>

(* --------------- the state store and the UserService calls -------------- *)
\* The pair the store-level operations are tried on.
StorePairs == {<<"a1", "u1">>}

\* A UserService call on a pair: its position, the row it read and how the
\* last call ended ("resolved" or "rejected").
NoSvcCall == [pc |-> "idle", op |-> "none", existing |-> NoState, outcome |-> "none"]

\* call: the UserService call per pair; base: the deliveryCount last written
\* to the row by create / update; recorded: the store recordDelivery calls on
\* the row since then.
NoSvc ==
  [call |-> [p \in StorePairs |-> NoSvcCall],
   base |-> [p \in StorePairs |-> 0],
   recorded |-> [p \in StorePairs |-> 0]]

\* The table before any row is inserted; made counts the entities constructed
\* so far (each gets a fresh id).
NoTable == [rows |-> {}, made |-> 0]

(* ----------------------- DeliveryStrategyFactory ------------------------ *)
DeliveryType == {"in_app", "email", "sms"}

\* Strategy objects handed to registerStrategy and factory functions handed to
\* registerStrategyFactory.
StrategyObjects == {"s1"}
FactoryFunctions == {"f1"}

NoEntry == [kind |-> "none", obj |-> "none", n |-> 0]
Registered(s) == [kind |-> "instance", obj |-> s, n |-> 0]
Produced(n) == [kind |-> "product", obj |-> "none", n |-> n]
Thunk(f) == [kind |-> "factory", obj |-> f, n |-> 0]

\* new DeliveryStrategyFactory(): initializeDefaultStrategies sets a factory
\* function for each type, no instance is cached. products counts the calls of
\* factory functions (each returns a new object); since holds, per type, what
\* createStrategy returned since the registration last changed; cleared, per
\* type, whether clearCache was called since then; last is the last
\* createStrategy call.
NewFactory ==
  [strategies |-> [t \in DeliveryType |-> Thunk("default")],
   instances |-> [t \in DeliveryType |-> NoEntry],
   products |-> 0,
   since |-> [t \in DeliveryType |-> NoEntry],
   cleared |-> [t \in DeliveryType |-> FALSE],
   last |-> [type |-> "none", threw |-> FALSE, result |-> NoEntry]]

FactoryUnchanged ==
  UNCHANGED <<now, storeVars, schedVars, opVars, entVars, ctorVars, uasVars, rateVars,
              retryVars, queryVars, svcVars, tableVars, channelVars, txVars>>

\* createStrategy(deliveryType)
CreateStrategy(t) ==
  /\ factory.instances[t] # NoEntry \/ factory.products < MaxProducts
  /\ factory' =
       IF factory.instances[t] # NoEntry
       THEN [factory EXCEPT !.since[t] = factory.instances[t], !.cleared[t] = FALSE,
                            !.last = [type |-> t, threw |-> FALSE, result |-> factory.instances[t]]]
       ELSE IF factory.strategies[t] = NoEntry
       THEN [factory EXCEPT !.last = [type |-> t, threw |-> TRUE, result |-> NoEntry]]
       ELSE LET strategy == IF factory.strategies[t].kind = "instance" THEN factory.strategies[t]
                            ELSE Produced(factory.products + 1)
            IN [factory EXCEPT !.instances[t] = strategy,
                               !.products = IF strategy.kind = "product" THEN @ + 1 ELSE @,
                               !.since[t] = strategy, !.cleared[t] = FALSE,
                               !.last = [type |-> t, threw |-> FALSE, result |-> strategy]]
  /\ FactoryUnchanged

\* registerStrategy(deliveryType, strategy)
RegisterStrategy(t, s) ==
  /\ factory' = [factory EXCEPT !.strategies[t] = Registered(s),
                                !.instances[t] = Registered(s),
                                !.since[t] = NoEntry, !.cleared[t] = FALSE]
  /\ FactoryUnchanged

\* A registration that leaves the cached instance in place.
RegisterStrategyFactory_keepsInstance(t, f) ==
  /\ factory' = [factory EXCEPT !.strategies[t] = Thunk(f),
                                !.since[t] = NoEntry, !.cleared[t] = FALSE]
  /\ FactoryUnchanged

\* registerStrategyFactory(deliveryType, factory)
RegisterStrategyFactory(t, f) ==
  /\ factory' = [factory EXCEPT !.strategies[t] = Thunk(f),
                                !.instances[t] = NoEntry,
                                !.since[t] = NoEntry, !.cleared[t] = FALSE]
  /\ FactoryUnchanged

\* unregisterStrategy(deliveryType)
UnregisterStrategy(t) ==
  /\ factory' = [factory EXCEPT !.strategies[t] = NoEntry,
                                !.instances[t] = NoEntry,
                                !.since[t] = NoEntry, !.cleared[t] = FALSE]
  /\ FactoryUnchanged

\* clearCache()
ClearCache ==
  /\ factory' = [factory EXCEPT !.instances = [t \in DeliveryType |-> NoEntry],
                                !.cleared = [t \in DeliveryType |-> TRUE]]
  /\ FactoryUnchanged

(* --------- InAppDeliveryStrategy / Email... / SMSDeliveryStrategy ------- *)
\* The users handed to a strategy: isActive, email and phoneNumber vary.
ChannelUsers ==
  [id : {"u1"}, isActive : BOOLEAN, email : {"", "u1@example.com"},
   phoneNumber : {"", "555-0100"}]

NoChannelCall ==
  [type |-> "none", at |-> Undefined,
   user |-> [id |-> "u1", isActive |-> FALSE, email |-> "", phoneNumber |-> ""],
   result |-> FALSE, inWindow |-> 0]

\* No strategy has delivered anything, canDeliver was never called.
NewChannel == [delivered |-> [t \in DeliveryType |-> <<>>], last |-> NoChannelCall]

ChannelUnchanged ==
  UNCHANGED <<storeVars, schedVars, opVars, entVars, ctorVars, uasVars, rateVars,
              retryVars, queryVars, svcVars, tableVars, factoryVars, txVars>>

\* canDeliver(user) of the strategy for delivery type t; times are the
\* strategy's earlier deliveries to the user, which the code does not look at.
strategyCanDeliver(t, user, times, at) ==
  CASE t = "in_app" -> user.isActive
    [] t = "email" -> user.email # ""
    [] t = "sms" -> user.phoneNumber # ""

\* Number of deliveries within the rate-limit window ending at time at.
InWindowCount(times, at) ==
  LET InWindow(timestamp) == at - timestamp < windowMs
  IN Len(SelectSeq(times, InWindow))

\* strategy.canDeliver(user)
ChannelCanDeliver(t, user) ==
  /\ channel' = [channel EXCEPT !.last =
                   [type |-> t, at |-> now, user |-> user,
                    result |-> strategyCanDeliver(t, user, channel.delivered[t], now),
                    inWindow |-> InWindowCount(channel.delivered[t], now)]]
  /\ UNCHANGED now
  /\ ChannelUnchanged

\* strategy.deliver(notification, user): logs and reports success.
ChannelDeliver(t) ==
  /\ Len(channel.delivered["in_app"]) + Len(channel.delivered["email"])
       + Len(channel.delivered["sms"]) < MaxRateCalls
  /\ channel' = [channel EXCEPT !.delivered[t] = Append(@, now)]
  /\ UNCHANGED now
  /\ ChannelUnchanged

(* ---------- BaseRepository.executeInTransaction / DatabaseTransaction --- *)
\* pc is the position of executeInTransaction; active is the transaction's
\* flag; statements counts the queries the operation has run on the client,
\* commits / rollbacks the COMMIT / ROLLBACK queries that took effect and
\* releases the client.release() calls; last is the last commit() or
\* rollback() call and whether it threw.
NoTransaction ==
  [pc |-> "idle", active |-> FALSE, statements |-> 0, commits |-> 0, rollbacks |-> 0, releases |-> 0,
   opCalls |-> 0, commitFailed |-> FALSE, rollbackFailed |-> FALSE,
   last |-> [method |-> "none", wasActive |-> FALSE, threw |-> FALSE, queried |-> FALSE],
   n |-> 0]

TxUnchanged ==
  UNCHANGED <<now, storeVars, schedVars, opVars, entVars, ctorVars, uasVars, rateVars,
              retryVars, queryVars, svcVars, tableVars, factoryVars, channelVars>>

\* DatabaseTransaction.commit(); ok: the COMMIT query resolves.
commit(t, ok) ==
  IF ~t.active
  THEN [t EXCEPT !.last = [method |-> "commit", wasActive |-> FALSE, threw |-> TRUE,
                           queried |-> FALSE]]
  ELSE IF ok
  THEN [t EXCEPT !.commits = @ + 1, !.active = FALSE, !.releases = @ + 1,
                 !.last = [method |-> "commit", wasActive |-> TRUE, threw |-> FALSE,
                           queried |-> TRUE]]
  ELSE [t EXCEPT !.releases = @ + 1, !.commitFailed = TRUE,
                 !.last = [method |-> "commit", wasActive |-> TRUE, threw |-> TRUE,
                           queried |-> TRUE]]

\* DatabaseTransaction.rollback(); ok: the ROLLBACK query resolves.
rollback(t, ok) ==
  IF ~t.active
  THEN [t EXCEPT !.last = [method |-> "rollback", wasActive |-> FALSE, threw |-> FALSE,
                           queried |-> FALSE]]
  ELSE IF ok
  THEN [t EXCEPT !.rollbacks = @ + 1, !.active = FALSE, !.releases = @ + 1,
                 !.last = [method |-> "rollback", wasActive |-> TRUE, threw |-> FALSE,
                           queried |-> TRUE]]
  ELSE [t EXCEPT !.releases = @ + 1, !.rollbackFailed = TRUE,
                 !.last = [method |-> "rollback", wasActive |-> TRUE, threw |-> TRUE,
                           queried |-> TRUE]]

\* executeInTransaction is called: beginTransaction() connects, sends BEGIN
\* and constructs the DatabaseTransaction.
TxBegin ==
  /\ tx.pc \in {"idle", "resolved", "rejected"}
  /\ tx.n < MaxTransactions
  /\ tx' = [NoTransaction EXCEPT !.pc = "operation", !.active = TRUE, !.n = tx.n + 1]
  /\ TxUnchanged

\* The operation runs a statement on the transaction's client.
TxOpQuery ==
  /\ tx.pc = "operation"
  /\ tx.statements < MaxOpCalls
  /\ tx' = [tx EXCEPT !.statements = @ + 1]
  /\ TxUnchanged

\* The operation calls commit() or rollback() on the transaction it was
\* given; a throw from the call leaves the operation.
TxOpCall(method, ok) ==
  /\ tx.pc = "operation"
  /\ tx.opCalls < MaxOpCalls
  /\ LET t == IF method = "commit" THEN commit(tx, ok) ELSE rollback(tx, ok)
     IN tx' = [t EXCEPT !.opCalls = @ + 1,
                        !.pc = IF t.last.threw THEN "catch" ELSE "operation"]
  /\ TxUnchanged

\* await operation(transaction) resolves or rejects.
TxOpEnd(throws) ==
  /\ tx.pc = "operation"
  /\ tx' = [tx EXCEPT !.pc = IF throws THEN "catch" ELSE "commit"]
  /\ TxUnchanged

\* await transaction.commit()
TxCommit(ok) ==
  /\ tx.pc = "commit"
  /\ LET t == commit(tx, ok)
     IN tx' = [t EXCEPT !.pc = IF t.last.threw THEN "catch" ELSE "resolved"]
  /\ TxUnchanged

\* catch (error) { await transaction.rollback(); throw ... }
TxRollback(ok) ==
  /\ tx.pc = "catch"
  /\ tx' = [rollback(tx, ok) EXCEPT !.pc = "rejected"]
  /\ TxUnchanged

UnitInit ==
  /\ made = NoMade
  /\ uas = NewUserAlertState(0)
  /\ ret = NoRet
  /\ calls = NoCalls
  /\ rateLimitTracker = [u \in Users |-> <<>>]
  /\ delivered = [u \in Users |-> <<>>]
  /\ dcall = [k \in 1..MaxConcurrent |-> NewCall]
  /\ retry = NoRetry
  /\ visAlerts = [a \in Alerts |-> NoAlertRow]
  /\ found = NoQuery
  /\ svc = NoSvc
  /\ tbl = NoTable
  /\ factory = NewFactory
  /\ channel = NewChannel
  /\ tx = NoTransaction

(* ----------------------------- the stores ------------------------------ *)
\* Visibility of the two alerts: a1 is organization-wide, a2 targets user u2.
targetUsers(a) == IF a = "a1" THEN <<"u1", "u2">> ELSE <<"u2">>

\* ORDER BY created_at DESC: a2 was created after a1.
CreatedDesc == <<"a2", "a1">>

SelectSeq2(seq, Keep(_)) ==
  LET F[i \in 0..Len(seq)] ==
        IF i = 0 THEN <<>>
        ELSE IF Keep(seq[i]) THEN Append(F[i - 1], seq[i]) ELSE F[i - 1]
  IN F[Len(seq)]

\* The WHERE clause without start_time <= NOW().
IsActiveRow_noStart(a, t) ==
  /\ alertRows[a].status = "active"
  /\ alertRows[a].expiryTime > t

\* AlertRepository.findActiveAlerts at time t.
IsActiveRow(a, t) ==
  /\ alertRows[a].status = "active"
  /\ alertRows[a].startTime <= t
  /\ alertRows[a].expiryTime > t

findActiveAlerts(t) ==
  LET Keep(a) == IsActiveRow(a, t)
      ids == SelectSeq2(CreatedDesc, Keep)
  IN [k \in 1..Len(ids) |-> [id |-> ids[k], reminderEnabled |-> alertRows[ids[k]].reminderEnabled]]

\* An update that skips a column whose value is undefined.
RepoUpdateState_skipsUndefined(row, entity, t) ==
  [row EXCEPT !.isRead = entity.isRead, !.isSnoozed = entity.isSnoozed,
              !.snoozeUntil = IF entity.snoozeUntil = Undefined THEN @ ELSE entity.snoozeUntil,
              !.lastDelivered = entity.lastDelivered,
              !.deliveryCount = entity.deliveryCount, !.updatedAt = t]

\* UserAlertStateRepository.update(id, entity): the five mapped columns of the
\* entity are written, updated_at is the time of the call.
RepoUpdateState(row, entity, t) ==
  [row EXCEPT !.isRead = entity.isRead, !.isSnoozed = entity.isSnoozed,
              !.snoozeUntil = entity.snoozeUntil, !.lastDelivered = entity.lastDelivered,
              !.deliveryCount = entity.deliveryCount, !.updatedAt = t]

\* UserAlertStateRepository.create(entity): INSERT ... ON CONFLICT DO UPDATE.
RepoCreateState(row, entity) ==
  [exists |-> TRUE, isRead |-> entity.isRead, isSnoozed |-> entity.isSnoozed,
   snoozeUntil |-> entity.snoozeUntil, lastDelivered |-> entity.lastDelivered,
   deliveryCount |-> entity.deliveryCount, updatedAt |-> entity.updatedAt]

\* An UPDATE that writes 1 instead of delivery_count + 1.
RepoRecordDelivery_setsOne(row, t) ==
  IF row.exists
  THEN [row EXCEPT !.lastDelivered = t, !.deliveryCount = 1, !.updatedAt = t]
  ELSE row

\* UserAlertStateRepository.recordDelivery(userId, alertId): one UPDATE statement.
RepoRecordDelivery(row, t) ==
  IF row.exists
  THEN [row EXCEPT !.lastDelivered = t, !.deliveryCount = @ + 1, !.updatedAt = t]
  ELSE row

\* The methods UserAlertStateRepository has (its own and the inherited CRUD).
RepositoryMethods ==
  {"create", "update", "findById", "delete", "findByUserId", "findByAlertId",
   "findByUserAndAlert", "findSnoozedStates", "findExpiredSnoozes", "bulkCreate",
   "bulkUpdateSnoozeStatus", "resetExpiredSnoozes", "getReadStatusStats",
   "getSnoozeStats", "findStatesNeedingReminders", "recordDelivery", "getDeliveryStats"}

StoreUnchanged ==
  UNCHANGED <<now, alertRows, schedVars, opVars, entVars, ctorVars, uasVars, rateVars,
              retryVars, queryVars, tableVars, factoryVars, channelVars, txVars>>

\* userAlertStateRepository.create(new UserAlertStateEntity({userId, alertId})):
\* the first-interaction create, an upsert on (user_id, alert_id).
StoreCreate(p) ==
  /\ userStates' = [userStates EXCEPT ![p] = RepoCreateState(@, NewUserAlertState(now))]
  /\ svc' = [svc EXCEPT !.base[p] = 0, !.recorded[p] = 0]
  /\ StoreUnchanged

\* userAlertStateRepository.recordDelivery(userId, alertId): with no row the
\* UPDATE changes nothing and null is returned.
StoreRecordDelivery(p) ==
  /\ userStates[p].deliveryCount < MaxDeliveries
  /\ userStates' = [userStates EXCEPT ![p] = RepoRecordDelivery(@, now)]
  /\ svc' = IF userStates[p].exists THEN [svc EXCEPT !.recorded[p] = @ + 1] ELSE svc
  /\ StoreUnchanged

\* UserService.snoozeAlert / markAlertAsRead of services/UserService.ts: the
\* first statement calls userAlertStateRepository.findByUserIdAndAlertId; the
\* repository has no such method, the call throws a TypeError and the returned
\* promise rejects before anything is read or written.
UserServiceCall(p, op) ==
  /\ op \in {"snoozeAlert", "markAlertAsRead"}
  /\ svc.call[p].pc = "idle"
  /\ "findByUserIdAndAlertId" \notin RepositoryMethods
  /\ svc' = [svc EXCEPT !.call[p] =
       [pc |-> "idle", op |-> op, existing |-> NoState, outcome |-> "rejected"]]
  /\ UNCHANGED userStates
  /\ StoreUnchanged

\* UserService.snoozeAlert / markAlertAsRead of the three-repository
\* UserService: findByUserAndAlert(userId, alertId) resolves.
UserServiceFind(p, op) ==
  /\ op \in {"snoozeAlert", "markAlertAsRead"}
  /\ svc.call[p].pc = "idle"
  /\ svc' = [svc EXCEPT !.call[p] =
       [pc |-> "found", op |-> op, existing |-> userStates[p], outcome |-> "none"]]
  /\ UNCHANGED userStates
  /\ StoreUnchanged

\* ... then the state read (fromData) or a new state is mutated with
\* snoozeForDay() / markAsRead() and written with update / create.
UserServiceWrite(p) ==
  /\ svc.call[p].pc = "found"
  /\ LET c == svc.call[p]
         local == IF c.existing.exists THEN c.existing ELSE NewUserAlertState(now)
         entity == IF c.op = "snoozeAlert" THEN snoozeForDay(local, now)
                   ELSE markAsRead(local, now)
     IN /\ userStates' = [userStates EXCEPT ![p] =
              IF c.existing.exists THEN RepoUpdateState(@, entity, now)
              ELSE RepoCreateState(@, entity)]
        /\ svc' = [svc EXCEPT !.call[p] = [c EXCEPT !.pc = "idle", !.outcome = "resolved"],
                              !.base[p] = entity.deliveryCount, !.recorded[p] = 0]
  /\ StoreUnchanged

(* ------------- user_alert_states as rows under their key --------------- *)
TableUnchanged ==
  UNCHANGED <<now, storeVars, schedVars, opVars, entVars, ctorVars, uasVars, rateVars,
              retryVars, queryVars, svcVars, factoryVars, channelVars, txVars>>

\* The rows with user_id, alert_id of pair p.
RowsOf(rows, p) == {r \in rows : r.pair = p}

\* new UserAlertStateEntity({userId, alertId}) with id n, read or not.
StateEntity(n, p, isRead) == [id |-> n, pair |-> p, isRead |-> isRead]

\* A plain INSERT of the row.
upsert_insertOnly(rows, e) == rows \cup {e}

\* INSERT ... ON CONFLICT (user_id, alert_id) DO UPDATE SET ... for one row of
\* the VALUES list: the row with the key is overwritten (its id is kept), or
\* the new row is inserted.
upsert(rows, e) ==
  IF RowsOf(rows, e.pair) = {} THEN rows \cup {e}
  ELSE {IF r.pair = e.pair THEN [r EXCEPT !.isRead = e.isRead] ELSE r : r \in rows}

\* UserAlertStateRepository.create(entity) = bulkCreate([entity]).
TblCreate(p, isRead) ==
  /\ tbl.made < MaxEntities
  /\ tbl' = [rows |-> upsert(tbl.rows, StateEntity(tbl.made + 1, p, isRead)),
             made |-> tbl.made + 1]
  /\ TableUnchanged

\* UserAlertStateRepository.bulkCreate([e1, e2]): one INSERT statement. When
\* both rows have the same key the statement fails (ON CONFLICT DO UPDATE
\* cannot affect a row a second time) and nothing is written.
TblBulkCreate(p, q) ==
  /\ tbl.made + 1 < MaxEntities
  /\ LET e1 == StateEntity(tbl.made + 1, p, FALSE)
         e2 == StateEntity(tbl.made + 2, q, TRUE)
     IN tbl' = [rows |-> IF p = q THEN tbl.rows ELSE upsert(upsert(tbl.rows, e1), e2),
                made |-> tbl.made + 2]
  /\ TableUnchanged

\* UserAlertStateRepository.update(id, {isRead}): UPDATE ... WHERE id = $n; the
\* key columns are not among the columns it sets.
TblUpdate(id, isRead) ==
  /\ \E r \in tbl.rows : r.id = id
  /\ tbl' = [tbl EXCEPT !.rows = {IF r.id = id THEN [r EXCEPT !.isRead = isRead] ELSE r : r \in @}]
  /\ TableUnchanged

(* --------------------------- the scheduler ----------------------------- *)
\* A tick callback: its position and locals, and as history the time of its
\* fetch, the alerts it has called processAlertReminders for, and whether the
\* state it read for the current recipient was a timed snooze that had expired.
NewTick ==
  [pc |-> "fetch", at |-> "none", alerts |-> <<>>, ai |-> 0, ui |-> 0, userState |-> NoState,
   fetchedAt |-> Undefined, processed |-> {}, expired |-> FALSE]

\* Index of the first alert at or after position from with reminderEnabled, else 0.
NextEnabled(alerts, from) ==
  LET c == {k \in from..Len(alerts) : alerts[k].reminderEnabled}
  IN IF c = {} THEN 0 ELSE CHOOSE k \in c : \A j \in c : k <= j

\* Position of the loop once the alert at index ai is finished.
ToNextAlert(tk, ai) ==
  LET k == NextEnabled(tk.alerts, ai + 1)
  IN IF k = 0
     THEN [NewTick EXCEPT !.pc = "done", !.fetchedAt = tk.fetchedAt, !.processed = tk.processed]
     ELSE [tk EXCEPT !.pc = "targets", !.ai = k, !.ui = 0, !.userState = NoState,
                     !.expired = FALSE, !.processed = @ \cup {tk.alerts[k].id}]

\* Position of the loop once the current recipient is finished.
ToNextUser(tk) ==
  IF tk.ui < Len(targetUsers(tk.alerts[tk.ai].id))
  THEN [tk EXCEPT !.pc = "find", !.ui = @ + 1, !.userState = NoState, !.expired = FALSE]
  ELSE ToNextAlert(tk, tk.ai)

\* An awaited call rejects: the async callback ends where it is; at holds the
\* call that rejected.
Rejected(tk) ==
  [tk EXCEPT !.pc = "rejected", !.at = tk.pc, !.userState = NoState, !.expired = FALSE]

CurAlert(tk) == tk.alerts[tk.ai].id
CurUser(tk) == targetUsers(CurAlert(tk))[tk.ui]

Start ==
  /\ interval = "null"
  /\ interval' = "set"
  /\ nextFire' = now + TickIntervalMinutes
  /\ UNCHANGED <<now, storeVars, ticks, faults, sentCount, lastSent, opVars, entVars, unitVars>>

Stop ==
  /\ interval = "set"
  /\ interval' = "null"
  /\ UNCHANGED <<now, storeVars, nextFire, ticks, faults, sentCount, lastSent,
                 opVars, entVars, unitVars>>

\* The interval timer fires: the async callback starts, whatever earlier
\* callbacks are doing.
Fire ==
  /\ interval = "set"
  /\ now >= nextFire
  /\ Len(ticks) < MaxTicks
  /\ ticks' = Append(ticks, NewTick)
  /\ nextFire' = nextFire + TickIntervalMinutes
  /\ UNCHANGED <<now, storeVars, interval, faults, sentCount, lastSent,
                 opVars, entVars, unitVars>>

AdvanceTime ==
  /\ now < MaxTime
  /\ interval = "null" \/ now < nextFire \/ Len(ticks) = MaxTicks
  /\ now' = now + 1
  /\ UNCHANGED <<storeVars, schedVars, opVars, entVars, unitVars>>

\* await this.alertService.listActiveAlerts() resolves.
TickFetch(i) ==
  /\ ticks[i].pc = "fetch"
  /\ ticks' = [ticks EXCEPT ![i] =
       ToNextAlert([ticks[i] EXCEPT !.alerts = findActiveAlerts(now), !.fetchedAt = now], 0)]
  /\ UNCHANGED <<now, storeVars, interval, nextFire, faults, sentCount, lastSent,
                 opVars, entVars, unitVars>>

\* await this.notificationService.getTargetUsers(alert) resolves.
TickTargets(i) ==
  /\ ticks[i].pc = "targets"
  /\ ticks' = [ticks EXCEPT ![i] =
       IF Len(targetUsers(CurAlert(ticks[i]))) = 0
       THEN ToNextAlert(ticks[i], ticks[i].ai)
       ELSE [ticks[i] EXCEPT !.pc = "find", !.ui = 1]]
  /\ UNCHANGED <<now, storeVars, interval, nextFire, faults, sentCount, lastSent,
                 opVars, entVars, unitVars>>

\* await this.userAlertStateRepository.findByUserAndAlert(user.id, alert.id) resolves.
TickFind(i) ==
  /\ ticks[i].pc = "find"
  /\ LET row == userStates[<<CurAlert(ticks[i]), CurUser(ticks[i])>>]
     IN ticks' = [ticks EXCEPT ![i] =
          [ticks[i] EXCEPT !.userState = row,
                           !.expired = row.exists /\ resetSnoozeIfExpiredResult(row, now),
                           !.pc = IF row.exists THEN "update" ELSE "decide"]]
  /\ UNCHANGED <<now, storeVars, interval, nextFire, faults, sentCount, lastSent,
                 opVars, entVars, unitVars>>

\* userState.resetSnoozeIfExpired(); await repository.update(userState.id, userState).
TickUpdate(i) ==
  /\ ticks[i].pc = "update"
  /\ LET p == <<CurAlert(ticks[i]), CurUser(ticks[i])>>
         st == resetSnoozeIfExpired(ticks[i].userState, now)
     IN /\ userStates' = [userStates EXCEPT ![p] = RepoUpdateState(@, st, now)]
        /\ ticks' = [ticks EXCEPT ![i] = [ticks[i] EXCEPT !.userState = st, !.pc = "decide"]]
  /\ UNCHANGED <<now, alertRows, interval, nextFire, faults, sentCount, lastSent,
                 opVars, entVars, unitVars>>

\* if (!userState || userState.shouldReceiveReminder()) sendNotification(alert, user)
TickDecide(i) ==
  /\ ticks[i].pc = "decide"
  /\ LET p == <<CurAlert(ticks[i]), CurUser(ticks[i])>>
         st == ticks[i].userState
     IN IF ~st.exists \/ shouldReceiveReminder(st, now)
        THEN /\ ticks' = [ticks EXCEPT ![i] = [ticks[i] EXCEPT !.pc = "send"]]
             /\ sentCount' = [sentCount EXCEPT ![p] = @ + 1]
             /\ lastSent' = [lastSent EXCEPT ![p] = now]
        ELSE /\ ticks' = [ticks EXCEPT ![i] = ToNextUser(ticks[i])]
             /\ UNCHANGED <<sentCount, lastSent>>
  /\ UNCHANGED <<now, storeVars, interval, nextFire, faults, opVars, entVars, unitVars>>

\* sendNotification resolves: the delivery succeeded, recordDelivery is persisted.
TickSend(i) ==
  /\ ticks[i].pc = "send"
  /\ LET p == <<CurAlert(ticks[i]), CurUser(ticks[i])>>
     IN userStates' = [userStates EXCEPT ![p] =
          IF @.exists THEN RepoRecordDelivery(@, now)
          ELSE RepoCreateState(@, recordDelivery(NewUserAlertState(now), now))]
  /\ ticks' = [ticks EXCEPT ![i] = ToNextUser(ticks[i])]
  /\ UNCHANGED <<now, alertRows, interval, nextFire, faults, sentCount, lastSent,
                 opVars, entVars, unitVars>>

\* An awaited call of the tick rejects; nothing in the callback catches it.
TickFault(i) ==
  /\ faults < MaxFaults
  /\ ticks[i].pc \in {"fetch", "targets", "find", "update", "send"}
  /\ faults' = faults + 1
  /\ ticks' = [ticks EXCEPT ![i] = Rejected(ticks[i])]
  /\ UNCHANGED <<now, storeVars, interval, nextFire, sentCount, lastSent,
                 opVars, entVars, unitVars>>

(* ---------------------------- AlertService ----------------------------- *)
\* Requests sent to AlertService.updateAlert.
AdminPatches ==
  { MkPatch({"status"}, "t1", 0, 0, TRUE, 1, "active"),
    MkPatch({"expiryTime"}, "t1", 0, 1, TRUE, 1, "active"),
    MkPatch({"reminderEnabled"}, "t1", 0, 0, FALSE, 1, "active") }

\* A finished call keeps nothing.
FinishedAdminOp(op) ==
  [pc |-> "done", kind |-> "archive", id |-> "a1", ent |-> NewAlert("t1", 0, 1, TRUE, 1),
   request |-> NoPatch]

\* archiveAlert / updateAlert: await this.alertRepository.findById(id) resolves.
AdminBegin(kind, a, request) ==
  /\ Len(adminOps) < MaxAdminOps
  /\ adminOps' = Append(adminOps,
       [pc |-> "loaded", kind |-> kind, id |-> a, ent |-> alertRows[a], request |-> request])
  /\ UNCHANGED <<now, storeVars, schedVars, userOps, entVars, unitVars>>

\* archiveAlert: alert.archive(); this.alertRepository.update(id, alert).
AdminArchive(k) ==
  /\ adminOps[k].pc = "loaded"
  /\ adminOps[k].kind = "archive"
  /\ alertRows' = [alertRows EXCEPT ![adminOps[k].id] = archive(adminOps[k].ent)]
  /\ adminOps' = [adminOps EXCEPT ![k] = FinishedAdminOp(@)]
  /\ UNCHANGED <<now, userStates, schedVars, userOps, entVars, unitVars>>

\* updateAlert: alert.update(request); this.alertRepository.update(id, alert).
\* When update throws the exception leaves updateAlert and nothing is written.
AdminUpdate(k) ==
  /\ adminOps[k].pc = "loaded"
  /\ adminOps[k].kind = "update"
  /\ alertRows' =
       IF updateThrows(adminOps[k].ent, adminOps[k].request, now) THEN alertRows
       ELSE [alertRows EXCEPT ![adminOps[k].id] =
               update(adminOps[k].ent, adminOps[k].request, now)]
  /\ adminOps' = [adminOps EXCEPT ![k] = FinishedAdminOp(@)]
  /\ UNCHANGED <<now, userStates, schedVars, userOps, entVars, unitVars>>

\* AlertRepository.archiveAlert(id): UPDATE ... WHERE id = $2 AND status != 'archived'.
RepoArchiveAlert(a) ==
  /\ alertRows[a].status # "archived"
  /\ alertRows' = [alertRows EXCEPT ![a].status = "archived"]
  /\ UNCHANGED <<now, userStates, schedVars, opVars, entVars, unitVars>>

\* AlertRepository.markAsExpired(id): UPDATE ... WHERE id = $2 AND status = 'active'.
RepoMarkAsExpired(a) ==
  /\ alertRows[a].status = "active"
  /\ alertRows' = [alertRows EXCEPT ![a].status = "expired"]
  /\ UNCHANGED <<now, userStates, schedVars, opVars, entVars, unitVars>>

(* ------------------------ per-user state calls ------------------------- *)
SnoozeTimes == {2}

\* A finished call keeps nothing.
FinishedUserOp(op) ==
  [pc |-> "done", kind |-> "unsnooze", a |-> "a1", u |-> "u1", until |-> Undefined,
   local |-> NoState]

\* A snooze / unsnooze request: findByUserAndAlert(userId, alertId) resolves.
UserBegin(kind, a, u, until) ==
  /\ Len(userOps) < MaxUserOps
  /\ userOps' = Append(userOps,
       [pc |-> "loaded", kind |-> kind, a |-> a, u |-> u, until |-> until,
        local |-> userStates[<<a, u>>]])
  /\ UNCHANGED <<now, storeVars, schedVars, adminOps, entVars, unitVars>>

\* The entity mutator is applied to the loaded (or a new) entity and the
\* entity is written back with update (existing row) or create (no row).
UserMutate(op, st, t) ==
  IF op.kind = "snooze" THEN snoozeUntilTime(st, op.until, t) ELSE unsnooze(st, t)

UserCommit(k) ==
  /\ userOps[k].pc = "loaded"
  /\ LET op == userOps[k]
         p == <<op.a, op.u>>
         throws == op.kind = "snooze" /\ snoozeUntilTimeThrows(op.until, now)
     IN userStates' =
          IF throws THEN userStates
          ELSE IF op.local.exists
          THEN [userStates EXCEPT ![p] = RepoUpdateState(@, UserMutate(op, op.local, now), now)]
          ELSE [userStates EXCEPT ![p] =
                  RepoCreateState(@, UserMutate(op, NewUserAlertState(now), now))]
  /\ userOps' = [userOps EXCEPT ![k] = FinishedUserOp(@)]
  /\ UNCHANGED <<now, alertRows, schedVars, adminOps, entVars, unitVars>>

\* UserAlertStateRepository.bulkUpdateSnoozeStatus([u], a, snoozed): one UPDATE.
RepoBulkUpdateSnoozeStatus(a, u, snoozed) ==
  /\ userStates[<<a, u>>].exists
  /\ userStates' = [userStates EXCEPT ![<<a, u>>] =
       [@ EXCEPT !.isSnoozed = snoozed,
                 !.snoozeUntil = IF snoozed = FALSE THEN Undefined ELSE @,
                 !.updatedAt = now]]
  /\ UNCHANGED <<now, alertRows, schedVars, opVars, entVars, unitVars>>

(* --------------------------- specifications ---------------------------- *)
InitEntity == NewAlert("t1", 0, 1, TRUE, Undefined)

InitRows ==
  [a \in Alerts |->
     IF a = "a1" THEN NewAlert("t1", 0, MaxTime + 1, TRUE, Undefined)
     ELSE NewAlert("t2", 0, 2, TRUE, Undefined)]

\* The (alert, user) pairs in which the user is a recipient of the alert.
VisiblePairs == {p \in Pairs : \E k \in 1..Len(targetUsers(p[1])) : targetUsers(p[1])[k] = p[2]}

\* The pairs for which state calls arrive from users.
UserOpPairs == {<<"a1", "u2">>}

Init ==
  /\ now = 0
  /\ alertRows = InitRows
  /\ userStates = [p \in Pairs |-> NoState]
  /\ interval = "null"
  /\ nextFire = 0
  /\ ticks = <<>>
  /\ faults = 0
  /\ sentCount = [p \in Pairs |-> 0]
  /\ lastSent = [p \in Pairs |-> Undefined]
  /\ adminOps = <<>>
  /\ userOps = <<>>
  /\ ent = InitEntity
  /\ entBefore = InitEntity
  /\ threw = FALSE
  /\ UnitInit

\* The scheduler, the state store and its callers, and archiving.
Next ==
  \/ Start
  \/ Stop
  \/ Fire
  \/ AdvanceTime
  \/ \E i \in 1..Len(ticks) : TickFetch(i)
  \/ \E i \in 1..Len(ticks) : TickTargets(i)
  \/ \E i \in 1..Len(ticks) : TickFind(i)
  \/ \E i \in 1..Len(ticks) : TickUpdate(i)
  \/ \E i \in 1..Len(ticks) : TickDecide(i)
  \/ \E i \in 1..Len(ticks) : TickSend(i)
  \/ \E i \in 1..Len(ticks) : TickFault(i)
  \/ \E a \in Alerts : Len(adminOps) < MaxArchiveOps /\ AdminBegin("archive", a, NoPatch)
  \/ \E k \in 1..Len(adminOps) : AdminArchive(k)
  \/ \E p \in UserOpPairs, t \in SnoozeTimes : UserBegin("snooze", p[1], p[2], t)
  \/ \E p \in UserOpPairs : UserBegin("unsnooze", p[1], p[2], Undefined)
  \/ \E k \in 1..Len(userOps) : UserCommit(k)
  \/ \E p \in UserOpPairs, b \in BOOLEAN : RepoBulkUpdateSnoozeStatus(p[1], p[2], b)

Spec == Init /\ [][Next]_vars

\* The rows the alerts table may hold when the scheduler starts: alerts that
\* have started or not, expire sooner or later, with reminders on or off, in
\* any status.
FetchRows ==
  {[NewAlert("t1", start, expiry, enabled, Undefined) EXCEPT !.status = st] :
     start \in {0, MaxTime}, expiry \in {MaxTime, MaxTime + 1}, enabled \in BOOLEAN,
     st \in AlertStatus}

FetchInit ==
  /\ now = 0
  /\ alertRows \in [Alerts -> {r \in FetchRows : r.startTime < r.expiryTime}]
  /\ userStates = [p \in Pairs |-> NoState]
  /\ interval = "null"
  /\ nextFire = 0
  /\ ticks = <<>>
  /\ faults = 0
  /\ sentCount = [p \in Pairs |-> 0]
  /\ lastSent = [p \in Pairs |-> Undefined]
  /\ adminOps = <<>>
  /\ userOps = <<>>
  /\ ent = InitEntity
  /\ entBefore = InitEntity
  /\ threw = FALSE
  /\ UnitInit

\* The scheduler alone over a table that does not change.
FetchNext ==
  \/ Start
  \/ Fire
  \/ AdvanceTime
  \/ \E i \in 1..Len(ticks) : TickFetch(i)
  \/ \E i \in 1..Len(ticks) : TickTargets(i)
  \/ \E i \in 1..Len(ticks) : TickFind(i)
  \/ \E i \in 1..Len(ticks) : TickUpdate(i)
  \/ \E i \in 1..Len(ticks) : TickDecide(i)
  \/ \E i \in 1..Len(ticks) : TickSend(i)
  \/ \E i \in 1..Len(ticks) : TickFault(i)

FetchSpec == FetchInit /\ [][FetchNext]_vars

\* The alert store and AlertService alone.
AlertNext ==
  \/ EntClock
  \/ \E a \in Alerts : AdminBegin("archive", a, NoPatch)
  \/ \E a \in Alerts, r \in AdminPatches : AdminBegin("update", a, r)
  \/ \E k \in 1..Len(adminOps) : AdminArchive(k)
  \/ \E k \in 1..Len(adminOps) : AdminUpdate(k)
  \/ \E a \in Alerts : RepoArchiveAlert(a)
  \/ \E a \in Alerts : RepoMarkAsExpired(a)

AlertSpec == Init /\ [][AlertNext]_vars

\* A free-standing AlertEntity.
EntityStart ==
  /\ now = 0
  /\ alertRows = InitRows
  /\ userStates = [p \in Pairs |-> NoState]
  /\ interval = "null"
  /\ nextFire = 0
  /\ ticks = <<>>
  /\ faults = 0
  /\ sentCount = [p \in Pairs |-> 0]
  /\ lastSent = [p \in Pairs |-> Undefined]
  /\ adminOps = <<>>
  /\ userOps = <<>>
  /\ EntityInit
  /\ UnitInit

EntityNext ==
  \/ \E r \in EntityPatches : EntUpdate(r)
  \/ EntArchive
  \/ EntMarkExpired
  \/ EntClock

EntitySpec == EntityStart /\ [][EntityNext]_vars

\* new AlertEntity(request, createdBy) alone.
CreateNext ==
  \/ EntClock
  \/ \E title \in {"t1", "  "}, start \in CreateTimes, expiry \in CreateTimes,
        freq \in {Undefined, 0} : Construct(title, start, expiry, freq)

CreateSpec == Init /\ [][CreateNext]_vars

\* A free-standing UserAlertStateEntity.
StateNext ==
  \/ EntClock
  \/ \E r \in StatePatches : StUpdate(r)
  \/ StMarkAsRead
  \/ StMarkAsUnread
  \/ StSnoozeForDay
  \/ \E until \in 0..(MaxTime + 1) : StSnoozeUntilTime(until)
  \/ StUnsnooze
  \/ StRecordDelivery
  \/ StResetSnoozeIfExpired
  \/ \E op \in QueryOps : StQuery(op)

StateSpec == Init /\ [][StateNext]_vars

\* One delivery channel: sequential deliverWithMetrics calls.
RateNext ==
  \/ EntClock
  \/ \E u \in Users, nv \in BOOLEAN, act \in BOOLEAN : DeliverBegin(1, u, nv, act)
  \/ DeliverPerform(1)
  \/ \E o \in DeliverOutcomes : DeliverResolve(1, o)

RateSpec == Init /\ [][RateNext]_vars

\* One delivery channel with up to MaxConcurrent deliverWithMetrics calls for
\* one user in flight at once; deliver() succeeds.
ConcRateNext ==
  \/ EntClock
  \/ \E k \in 1..MaxConcurrent, nv \in BOOLEAN : DeliverBegin(k, "u1", nv, TRUE)
  \/ \E k \in 1..MaxConcurrent : DeliverPerform(k)
  \/ \E k \in 1..MaxConcurrent : DeliverResolve(k, CHOOSE o \in DeliverOutcomes : o.kind = "success")

ConcRateSpec == Init /\ [][ConcRateNext]_vars

\* The alerts table under creation, archiving and the visibility queries.
VisNext ==
  \/ EntClock
  \/ \E a \in Alerts, type \in VisibilityTypes, ids \in TargetIdSets, start \in {now, now + 1} :
       VisCreateAlert(a, type, ids, start, start + 1)
  \/ \E a \in Alerts : VisArchiveAlert(a)
  \/ \E u \in Users : QueryFindAlertsForUser(u)
  \/ \E u \in Users : QueryFindByVisibility(u)

VisSpec == Init /\ [][VisNext]_vars

\* The state store under first-interaction creates, recordDelivery and the
\* UserService calls.
StoreNext ==
  \/ EntClock
  \/ \E p \in StorePairs : StoreCreate(p)
  \/ \E p \in StorePairs : StoreRecordDelivery(p)
  \/ \E p \in StorePairs, op \in {"snoozeAlert", "markAlertAsRead"} : UserServiceCall(p, op)
  \/ \E p \in StorePairs, op \in {"snoozeAlert", "markAlertAsRead"} : UserServiceFind(p, op)
  \/ \E p \in StorePairs : UserServiceWrite(p)

StoreSpec == Init /\ [][StoreNext]_vars

\* create, bulkCreate and update on the state table.
TableNext ==
  \/ \E p \in Pairs, b \in BOOLEAN : TblCreate(p, b)
  \/ \E p, q \in Pairs : TblBulkCreate(p, q)
  \/ \E id \in 1..MaxEntities, b \in BOOLEAN : TblUpdate(id, b)

TableSpec == Init /\ [][TableNext]_vars

\* The strategy factory under its five calls.
FactoryNext ==
  \/ \E t \in DeliveryType : CreateStrategy(t)
  \/ \E t \in DeliveryType, s \in StrategyObjects : RegisterStrategy(t, s)
  \/ \E t \in DeliveryType, f \in FactoryFunctions : RegisterStrategyFactory(t, f)
  \/ \E t \in DeliveryType : UnregisterStrategy(t)
  \/ ClearCache

FactorySpec == Init /\ [][FactoryNext]_vars

\* calculateNextRetryTime alone.
RetryNext ==
  \/ EntClock
  \/ \E n \in 1..MaxAttempt, k \in 0..(RandomSteps - 1) : CalculateNextRetryTime(n, k)

RetrySpec == Init /\ [][RetryNext]_vars

(* ------------------------------ claims --------------------------------- *)
InFlight == {i \in 1..Len(ticks) : ticks[i].pc \notin {"done", "rejected"}}

\* C1: at most one scheduler tick executes at any time; a fire that arrives
\* while the previous tick is still processing starts no processing.
C1_SingleTickInFlight == Cardinality(InFlight) <= 1

\* The due pairs a tick has not reached when it stops at its position; when
\* recipient resolution is what failed, the pairs of that alert are not counted.
RemainingPairs(tk) ==
  {p \in Pairs : \E k \in 1..Len(tk.alerts) :
     /\ tk.alerts[k].reminderEnabled
     /\ p[1] = tk.alerts[k].id
     /\ \E j \in 1..Len(targetUsers(p[1])) :
          /\ p[2] = targetUsers(p[1])[j]
          /\ k > tk.ai \/ (k = tk.ai /\ tk.at # "targets" /\ j > tk.ui)}

\* C2: when a call made for one (alert, user) pair fails within a tick, every
\* other pair that is due in that tick is still processed: a tick that ended
\* on such a failure has left no due pair unprocessed.
C2_FailureIsolated ==
  \A i \in 1..Len(ticks) :
    (ticks[i].pc = "rejected" /\ ticks[i].at \in {"targets", "find", "update", "send"})
      => RemainingPairs(ticks[i]) = {}

\* C3: the scheduler invokes sendNotification for a pair only when the stored
\* state of the pair is not currently snoozed (indefinitely, or until t > now).
C3_NoSendWhileSnoozed ==
  [][\A p \in Pairs :
       sentCount'[p] > sentCount[p] => ~isCurrentlySnoozed(userStates[p], now)]_vars

\* The pairs whose own processing is what made the tick reject.
FailedUnit(tk) ==
  IF tk.pc # "rejected" \/ tk.at = "fetch" THEN {}
  ELSE {p \in Pairs : p[1] = tk.alerts[tk.ai].id
                      /\ (tk.at = "targets" \/ p[2] = targetUsers(p[1])[tk.ui])}

\* C4: for an active, started, reminder-enabled, unexpired alert and an
\* eligible user without stored state, the first tick invokes the delivery
\* exactly once for the pair and leaves a stored deliveryCount of 1.  Stated
\* for runs with one tick, no state call by a user and no archive, and for the
\* pairs whose own calls did not fail.
C4_FirstTickDeliversOnce ==
  (/\ Len(ticks) = 1
   /\ ticks[1].pc \in {"done", "rejected"}
   /\ ticks[1].at # "fetch"
   /\ userOps = <<>>
   /\ adminOps = <<>>)
  => \A p \in VisiblePairs \ FailedUnit(ticks[1]) :
       (IsActiveRow(p[1], now) /\ alertRows[p[1]].reminderEnabled)
         => /\ sentCount[p] = 1
            /\ userStates[p].exists
            /\ userStates[p].deliveryCount = 1

\* C5: once the archive of an alert is committed to the store, no delivery
\* for that alert is invoked any more.
C5_NoSendAfterArchive ==
  [][\A p \in Pairs :
       alertRows[p[1]].status = "archived" => sentCount'[p] = sentCount[p]]_vars

\* C6: two consecutive reminder deliveries to a pair are at least the alert's
\* reminderFrequency hours apart.
C6_ReminderSpacing ==
  [][\A p \in Pairs :
       (sentCount'[p] > sentCount[p] /\ lastSent[p] # Undefined)
         => now - lastSent[p] >= alertRows[p[1]].reminderFrequency * MinutesPerHour]_vars

\* C7: after stop() has returned the scheduler writes no state and delivers
\* nothing until start() is called again.
C7_QuietAfterStop ==
  [][interval = "null" =>
       /\ sentCount' = sentCount
       /\ \A i \in 1..Len(ticks) :
            ticks[i].pc \in {"update", "send"}
              => ticks'[i].pc \in {ticks[i].pc, "rejected"}]_vars

\* C8: alert status is monotonic: a stored status that has become expired or
\* archived never changes again.
C8_StatusMonotonic ==
  [][\A a \in Alerts :
       alertRows[a].status # "active" => alertRows'[a].status = alertRows[a].status]_vars

\* C9: in every reachable state of an alert entity, after construction and
\* after any update(request) whether it returned or threw, startTime < expiryTime.
C9_StartBeforeExpiry == ent.startTime < ent.expiryTime

\* C10: whenever update(request) throws, every field of the alert has the
\* value it had before the call.
C10_ThrowLeavesUnchanged == threw => ent = entBefore

\* C11: constructing an alert succeeds only if expiryTime > startTime and
\* expiryTime > now; otherwise the constructor throws.
C11_CreateRequiresValidTimes ==
  (made.called /\ ~made.threw)
    => /\ TimeOf(made.expiryTime) > TimeOf(made.startTime)
       /\ TimeOf(made.expiryTime) > made.at

\* A timed snooze that is past its end at time t.
ExpiredSnooze(s, t) == s.isSnoozed /\ s.snoozeUntil # Undefined /\ t >= s.snoozeUntil

\* C12: isCurrentlySnoozed() returns false exactly when isSnoozed is false, or
\* isSnoozed is true with snoozeUntil set and now >= snoozeUntil; true otherwise.
C12_SnoozedExactly ==
  ret.op = "isCurrentlySnoozed"
    => (ret.bool = FALSE <=> (~ret.before.isSnoozed \/ ExpiredSnooze(ret.before, ret.at)))

C12_Witness ==
  /\ ret.op = "isCurrentlySnoozed"
  /\ ExpiredSnooze(ret.before, ret.at)
  /\ ret.at = ret.before.snoozeUntil
  /\ ~ret.bool

\* C13: in every reachable state and at every time, shouldReceiveReminder()
\* returns the negation of what isCurrentlySnoozed() returns.
C13_ReminderIsNotSnoozed ==
  ret.op = "shouldReceiveReminder" => ret.bool = ~isCurrentlySnoozed(ret.before, ret.at)

C13_Witness ==
  /\ ret.op = "shouldReceiveReminder"
  /\ ret.before.isSnoozed
  /\ ret.bool

\* C14: resetSnoozeIfExpired() returns false and leaves every field unchanged
\* in every state that is not a timed snooze with now >= snoozeUntil; a second
\* call right after a call that returned true returns false and changes nothing.
C14_ResetIdempotent ==
  ret.op = "resetSnoozeIfExpired"
    => /\ ~ExpiredSnooze(ret.before, ret.at) => (~ret.bool /\ uas = ret.before)
       /\ ret.again => (~ret.bool /\ uas = ret.before)

C14_Witness ==
  /\ ret.op = "resetSnoozeIfExpired"
  /\ ret.again

\* C15: after snoozeForDay(), isCurrentlySnoozed() is true at every later
\* instant of the same local day, the last instant of the day included.
C15_SnoozedThroughTheDay ==
  (ret.op = "snoozeForDay" /\ now \div DayLength = ret.at \div DayLength)
    => isCurrentlySnoozed(uas, now)

\* C16: from a fresh state, N recordDelivery() calls, with read and snooze
\* operations interleaved, give deliveryCount = N and lastDelivered = the time
\* of the last call.
C16_DeliveryCountIsCalls ==
  ~calls.patched => (uas.deliveryCount = calls.n /\ uas.lastDelivered = calls.at)

C16_Witness ==
  /\ ~calls.patched
  /\ calls.n >= 2
  /\ calls.at < now
  /\ uas.isSnoozed
  /\ uas.isRead

\* C17: deliveryCount is never negative and never decreases, across any
\* sequence of entity operations, update(request) included.
C17_DeliveryCountMonotonic ==
  /\ uas.deliveryCount >= 0
  /\ uas.deliveryCount >= ret.before.deliveryCount

\* C18: the query methods leave every field of the state unchanged, also when
\* a timed snooze has already expired.
C18_QueriesDoNotMutate ==
  ret.op \in QueryOps => uas = ret.before

C18_Witness ==
  /\ ret.op = "getStateInfo"
  /\ ExpiredSnooze(uas, ret.at)
  /\ ~ret.bool

\* C19: snoozeUntilTime(t) with t <= now throws and leaves isSnoozed,
\* snoozeUntil and updatedAt unchanged; with t > now it sets isSnoozed = true
\* and snoozeUntil = t.
C19_SnoozeUntilFuture ==
  ret.op = "snoozeUntilTime"
    => IF ret.arg <= ret.at
       THEN /\ ret.bool
            /\ uas.isSnoozed = ret.before.isSnoozed
            /\ uas.snoozeUntil = ret.before.snoozeUntil
            /\ uas.updatedAt = ret.before.updatedAt
       ELSE /\ ~ret.bool
            /\ uas.isSnoozed
            /\ uas.snoozeUntil = ret.arg

C19_Witness ==
  /\ ret.op = "snoozeUntilTime"
  /\ ret.bool
  /\ ret.arg = ret.at
  /\ ret.before.isSnoozed

\* The deliver() invocations for user u within the windowMs preceding instant t.
InWindowAt(u, t) ==
  {i \in 1..Len(delivered[u]) : delivered[u][i] <= t /\ t - delivered[u][i] < windowMs}

\* C20: for every user id and every instant, under sequential
\* deliverWithMetrics calls on one channel, the deliver() invocations for that
\* user within the preceding windowMs never exceed rateLimiting.maxRequests.
C20_RateLimitHolds ==
  \A u \in Users, t \in 0..now : Cardinality(InWindowAt(u, t)) <= maxRequests

C20_Witness ==
  /\ dcall[1].pc = "idle"
  /\ dcall[1].errorMessage = "Delivery not possible for this user"
  /\ Cardinality(InWindowAt(dcall[1].user, now)) = maxRequests
  /\ Len(delivered[dcall[1].user]) > 0

\* C21: the per-user rate limit also holds when several deliverWithMetrics
\* calls for one user are in flight at once: under every interleaving, no more
\* than maxRequests deliver() invocations for the user fall inside one window.
C21_RateLimitHoldsConcurrently ==
  \A u \in Users, t \in 0..now : Cardinality(InWindowAt(u, t)) <= maxRequests

\* C22: a deliverWithMetrics call whose validation result is invalid returns a
\* failed result without invoking deliver(), without an entry added to the
\* user's rate-limit window and without advancing the attempt number.
C22_InvalidShortCircuits ==
  \A k \in 1..MaxConcurrent :
    ~(dcall[k].notificationValid /\ dcall[k].isActive)
      => /\ dcall[k].pc = "idle"
         /\ dcall[k].result = "failed"
         /\ Len(delivered[dcall[k].user]) = dcall[k].before
         /\ Len(rateLimitTracker[dcall[k].user]) = dcall[k].before
         /\ dcall[k].attemptNumber = 1

C22_Witness ==
  /\ dcall[1].result = "failed"
  /\ ~dcall[1].notificationValid
  /\ dcall[1].isActive
  /\ dcall[1].before > 0

\* C23 as stated: with baseDelay 1000, backoffMultiplier 2, maxDelay 30000 the
\* pre-jitter delay is exactly 30000 for the 5th failed attempt and every
\* later one, with jitter j such that 0 <= j < jitterFactor * delay.
C23_CappedFromFifth ==
  (retry.called /\ retry.attemptNumber >= 5)
    => /\ retry.delay = 30000
       /\ 0 <= retry.jitter
       /\ retry.jitter * 100 < jitterFactorPercent * retry.delay

\* C23 amended: the pre-jitter delay is min(1000 * 2^(n-1), 30000), that is
\* 16000 for the 5th failed attempt and exactly 30000 for the 6th and every
\* later one, with jitter j such that 0 <= j < jitterFactor * delay.
C23_CappedFromSixth ==
  retry.called
    => /\ retry.attemptNumber >= 6 => retry.delay = 30000
       /\ retry.attemptNumber = 5 => retry.delay = 16000
       /\ retry.attemptNumber < 5 => retry.delay < 16000
       /\ 0 <= retry.jitter
       /\ retry.jitter * 100 < jitterFactorPercent * retry.delay

C23_Witness ==
  /\ retry.called
  /\ retry.attemptNumber = 6
  /\ retry.delay = maxDelay
  /\ retry.jitter > 0

\* The terminal conditions: validation failure, inactive user, malformed
\* email address or phone number, user not found.
TerminalError(errorMessage) ==
  errorMessage \in ValidationMessages
      \cup {"Invalid email address", "Invalid phone number format", "User not found"}

\* C24: for a failed delivery, shouldRetry is false when the error is one of
\* the terminal conditions and true for every other failed delivery.
C24_RetryUnlessTerminal ==
  \A k \in 1..MaxConcurrent :
    (dcall[k].pc = "idle" /\ dcall[k].result = "failed")
      => (dcall[k].shouldRetry <=> ~TerminalError(dcall[k].errorMessage))

\* C25: a delivery attempt returns a result even if deliver() never completes:
\* no attempt is still waiting for deliver() once the configured timeout has
\* elapsed since it started.
C25_AttemptBoundedByTimeout ==
  \A k \in 1..MaxConcurrent :
    dcall[k].pc = "deliver" => now - dcall[k].startTime <= timeout

\* C26: recordDelivery operations on an existing pair, in any interleaving,
\* raise the stored deliveryCount by exactly their number: the count is the
\* count last written by create / update plus the recordDelivery calls since.
C26_NoIncrementLost ==
  \A p \in StorePairs :
    userStates[p].exists => userStates[p].deliveryCount = svc.base[p] + svc.recorded[p]

C26_Witness ==
  \E p \in StorePairs :
    /\ userStates[p].exists
    /\ svc.recorded[p] = 2
    /\ userStates[p].deliveryCount = 2

\* Visibility as C27 states it.
VisibleTo(row, u) ==
  \/ /\ row.visibility_type = "organization"
     /\ (organizationId(u) \in row.target_ids \/ row.target_ids = {})
  \/ row.visibility_type = "team" /\ teamId(u) \in row.target_ids
  \/ row.visibility_type = "user" /\ u \in row.target_ids

\* C27: an organization-scope alert is visible to a user whose organization
\* id is in its targetIds, an organization-scope alert without targetIds to
\* every user of the organization, a team-scope alert to the members of its
\* target teams and a user-scope alert to its target users: every such alert
\* that is active and inside its time window is in the query's result.
C27_VisibleAlertsAreReturned ==
  [][\A u \in Users :
       (QueryFindAlertsForUser(u) \/ QueryFindByVisibility(u))
         => \A a \in Alerts :
              (/\ visAlerts[a].exists
               /\ visAlerts[a].status = "active"
               /\ visAlerts[a].start_time <= now
               /\ now < visAlerts[a].expiry_time
               /\ VisibleTo(visAlerts[a], u))
                => \E i \in 1..Len(found'.result) : found'.result[i] = a]_vars

\* C28: every alert returned by the alerts-visible-to-user query has status
\* active and startTime <= now < expiryTime at query time, and each alert id
\* appears at most once in the result.
C28_ReturnedAreActiveInWindow ==
  [][\A u \in Users :
       (QueryFindAlertsForUser(u) \/ QueryFindByVisibility(u))
         => /\ \A i \in 1..Len(found'.result) :
                 LET row == visAlerts[found'.result[i]]
                 IN /\ row.status = "active"
                    /\ row.start_time <= now
                    /\ now < row.expiry_time
            /\ \A i, j \in 1..Len(found'.result) :
                 found'.result[i] = found'.result[j] => i = j]_vars

\* A step in which a UserService call of the given kind on p returns.
Returns(p, op) ==
  /\ svc'.call[p] # svc.call[p]
  /\ svc'.call[p].pc = "idle"
  /\ svc'.call[p].op = op

\* C29: UserService.snoozeAlert(userId, alertId) always results in a stored
\* state for the pair with isSnoozed = true and snoozeUntil at the end of the
\* current day, whether or not a state existed; no other pair's state is
\* created or changed by it.
C29_SnoozeAlertStoresSnooze ==
  [][\A p \in StorePairs :
       Returns(p, "snoozeAlert")
         => /\ userStates'[p].exists
            /\ userStates'[p].isSnoozed
            /\ userStates'[p].snoozeUntil = endOfDay(now)
            /\ \A q \in Pairs \ {p} : userStates'[q] = userStates[q]]_vars

\* C30: UserService.markAlertAsRead(userId, alertId) always results in a
\* stored state for the pair with isRead = true; the snooze fields and the
\* deliveryCount of a state that existed when the call read it are kept.
C30_MarkAlertAsReadStoresRead ==
  [][\A p \in StorePairs :
       Returns(p, "markAlertAsRead")
         => /\ userStates'[p].exists
            /\ userStates'[p].isRead
            /\ svc.call[p].existing.exists
                 => /\ userStates'[p].isSnoozed = svc.call[p].existing.isSnoozed
                    /\ userStates'[p].snoozeUntil = svc.call[p].existing.snoozeUntil
                    /\ userStates'[p].deliveryCount = svc.call[p].existing.deliveryCount]_vars

\* The alerts due for reminders at time t as C31 states them.
DueAt(t) ==
  {a \in Alerts : /\ alertRows[a].status = "active"
                  /\ alertRows[a].reminderEnabled
                  /\ alertRows[a].expiryTime > t}

C32_OneRowPerPair ==
  \A p \in Pairs : Cardinality(RowsOf(tbl.rows, p)) <= 1

\* Two entities were created for one pair and one row is stored.
C32_Witness ==
  /\ tbl.made = 2
  /\ Cardinality(tbl.rows) = 1
  /\ \E r \in tbl.rows : r.id = 1 /\ r.isRead

\* C33 as stated: createStrategy(t) throws when t is unregistered, returns the
\* registered instance itself after registerStrategy (also after clearCache),
\* a fresh factory product on the first call after registerStrategyFactory,
\* and the instance of the previous call for t whenever the registration has
\* not changed since that call.
C33_LatestRegistrationDecides ==
  [][\A t \in DeliveryType :
       CreateStrategy(t)
         => LET r == factory'.last
            IN /\ r.type = t
               /\ r.threw <=> factory.strategies[t] = NoEntry
               /\ factory.strategies[t].kind = "instance" => r.result = factory.strategies[t]
               /\ factory.since[t] # NoEntry => r.result = factory.since[t]
               /\ (factory.strategies[t].kind = "factory" /\ factory.since[t] = NoEntry)
                    => r.result = Produced(factory.products + 1)]_vars

\* C33 amended: as above, but the instance of the previous call is returned
\* again only while neither the registration has changed nor clearCache has
\* been called; after clearCache a factory registration yields a fresh product.
C33_LatestRegistrationAndCacheDecide ==
  [][\A t \in DeliveryType :
       CreateStrategy(t)
         => LET r == factory'.last
            IN /\ r.type = t
               /\ r.threw <=> factory.strategies[t] = NoEntry
               /\ factory.strategies[t].kind = "instance" => r.result = factory.strategies[t]
               /\ (factory.since[t] # NoEntry /\ ~factory.cleared[t])
                    => r.result = factory.since[t]
               /\ (factory.strategies[t].kind = "factory"
                     /\ (factory.since[t] = NoEntry \/ factory.cleared[t]))
                    => r.result = Produced(factory.products + 1)]_vars

\* createStrategy has returned a second product of one factory registration.
C33_Witness ==
  \E t \in DeliveryType :
    /\ factory.last.type = t
    /\ factory.strategies[t] = Thunk("f1")
    /\ factory.last.result = Produced(2)
    /\ factory.since[t] = Produced(2)
    /\ \A u \in DeliveryType \ {t} : factory.since[u] = NoEntry /\ factory.instances[u] = NoEntry

\* The three concrete strategies: canDeliver and deliver calls as time passes.
ChannelNext ==
  \/ EntClock
  \/ \E t \in DeliveryType, user \in ChannelUsers : ChannelCanDeliver(t, user)
  \/ \E t \in DeliveryType : ChannelDeliver(t)

ChannelSpec == Init /\ [][ChannelNext]_vars

\* C34: canDeliver(user) of each channel variant is true exactly when the
\* variant's eligibility holds (in-app: active; email: has an address; SMS: has
\* a phone number) and the number of the variant's deliveries to the user
\* within the window is below maxRequests.
C34_CanDeliverIffEligibleAndUnderLimit ==
  LET c == channel.last
      eligible == \/ c.type = "in_app" /\ c.user.isActive
                  \/ c.type = "email" /\ c.user.email # ""
                  \/ c.type = "sms" /\ c.user.phoneNumber # ""
  IN c.type # "none" => (c.result <=> (eligible /\ c.inWindow < maxRequests))

C36_AxesAreIndependent ==
  LET b == ret.before
  IN /\ ret.op \in {"markAsRead", "markAsUnread"}
          => /\ uas.isSnoozed = b.isSnoozed /\ uas.snoozeUntil = b.snoozeUntil
             /\ uas.deliveryCount = b.deliveryCount /\ uas.lastDelivered = b.lastDelivered
     /\ ret.op \in {"snoozeForDay", "snoozeUntilTime", "unsnooze", "resetSnoozeIfExpired"}
          => /\ uas.isRead = b.isRead
             /\ uas.deliveryCount = b.deliveryCount /\ uas.lastDelivered = b.lastDelivered
     /\ ret.op = "recordDelivery"
          => /\ uas.isRead = b.isRead
             /\ uas.isSnoozed = b.isSnoozed /\ uas.snoozeUntil = b.snoozeUntil
     /\ ret.op = "unsnooze" => (~uas.isSnoozed /\ uas.snoozeUntil = Undefined)

\* markAsRead was called on a read-pending entity with a timed snooze and a
\* recorded delivery.
C36_Witness ==
  /\ ret.op = "markAsRead"
  /\ ~ret.before.isRead /\ uas.isRead
  /\ ret.before.isSnoozed /\ ret.before.snoozeUntil # Undefined
  /\ ret.before.deliveryCount > 0

\* C37: getSnoozeTimeRemaining() returns snoozeUntil - now when the entity is
\* a timed snooze with now < snoozeUntil and 0 in every other state; it is
\* never negative.
C37_RemainingOnlyForRunningTimedSnooze ==
  ret.op = "getSnoozeTimeRemaining"
    => LET b == ret.before
       IN /\ ret.num = IF b.isSnoozed /\ b.snoozeUntil # Undefined /\ ret.at < b.snoozeUntil
                       THEN b.snoozeUntil - ret.at ELSE 0
          /\ ret.num >= 0

\* getSnoozeTimeRemaining() was called while snoozeUntil lay in the future
\* and isSnoozed was false; it returned 0.
C37_Witness ==
  /\ ret.op = "getSnoozeTimeRemaining"
  /\ ~ret.before.isSnoozed
  /\ ret.before.snoozeUntil # Undefined /\ ret.at < ret.before.snoozeUntil
  /\ ret.num = 0

\* AlertService.archiveAlert and AlertService.updateAlert calls alone: a row
\* is archived only by a completed archiveAlert.
ServiceNext ==
  \/ EntClock
  \/ \E a \in Alerts : AdminBegin("archive", a, NoPatch)
  \/ \E a \in Alerts, r \in AdminPatches : AdminBegin("update", a, r)
  \/ \E k \in 1..Len(adminOps) : AdminArchive(k)
  \/ \E k \in 1..Len(adminOps) : AdminUpdate(k)

ServiceSpec == Init /\ [][ServiceNext]_vars

\* C38: an updateAlert whose request does not name status, completing when the
\* stored alert is archived, leaves the stored status archived, also when it
\* read the alert before the archive.
C38_ArchiveSurvivesConcurrentUpdate ==
  [][\A k \in 1..Len(adminOps) :
       (/\ adminOps[k].pc = "loaded"
        /\ adminOps[k].kind = "update"
        /\ "status" \notin adminOps[k].request.has
        /\ alertRows[adminOps[k].id].status = "archived"
        /\ AdminUpdate(k))
         => alertRows'[adminOps[k].id].status = "archived"]_vars

TxNext ==
  \/ TxBegin
  \/ TxOpQuery
  \/ \E method \in {"commit", "rollback"}, ok \in BOOLEAN : TxOpCall(method, ok)
  \/ \E throws \in BOOLEAN : TxOpEnd(throws)
  \/ \E ok \in BOOLEAN : TxCommit(ok)
  \/ \E ok \in BOOLEAN : TxRollback(ok)

TxSpec == Init /\ [][TxNext]_vars

\* C40: when executeInTransaction has ended, its operation having left the
\* transaction alone and the ROLLBACK query, if sent, not having failed,
\* exactly one COMMIT or ROLLBACK has taken effect and the client was released
\* exactly once; a commit() on a transaction that was not active threw and a
\* rollback() on one sent no query and did not throw.
C40_OneOutcomeOneRelease ==
  /\ (tx.pc \in {"resolved", "rejected"} /\ tx.opCalls = 0 /\ ~tx.rollbackFailed)
       => (tx.commits + tx.rollbacks = 1 /\ tx.releases = 1)
  /\ (tx.last.method = "commit" /\ ~tx.last.wasActive) => tx.last.threw
  /\ (tx.last.method = "rollback" /\ ~tx.last.wasActive)
       => (~tx.last.threw /\ ~tx.last.queried)

====
